---- MODULE Spec2Model ----
\* A model of the volleyball lineup editor (src/src/App.tsx, second revision in
\* the file, lines 734-1840) and of the controls that call it
\* (src/unnamed/part_005, SubBench, Court, DraggablePlayerSlot).
\*
\* Arrays of the source are sequences here; the source indexes from 0, so
\* element i of an array a is At(a, i) == a[i + 1].
EXTENDS Integers, Sequences, FiniteSets, TLC

\* ---------------------------------------------------------------- bounds

\* Number of handler calls (gesture starts included) explored after start-up.
MaxOps == 2
\* Number of hover (drag-over) events explored within one drag gesture.
MaxHovers == 1
\* Longest bench of a stored lineup in the rotation runs.
MaxRotSubs == 2
\* Number of rotations in a row explored in the rotation runs.
MaxRotations == 2
\* Number of drag gestures explored in the drag runs.
MaxGestures == 1
\* Number of hover (drag-over) events explored within one gesture of the drag runs.
MaxGestureHovers == 2
\* Number of court size changes in a row explored in the resize runs.
MaxResizes == 1

\* ------------------------------------------------------ program constants

NUM_LINEUPS == 6
MAX_SUBS_PER_SIDE == 4
\* Controls: Math.max(4, playerCount - 1) and Math.min(6, playerCount + 1).
MIN_PLAYER_COUNT == 4
MAX_PLAYER_COUNT == 6
\* README, "Configurable Court Size": the number of players on court, 1-12
README_MAX_COURT_SIZE == 12
README_MAX_SUBS_PER_SIDE == 3

\* ------------------------------------------------------------------ data

Gender == {"female", "male"}
Direction == {"forward", "backward"}
Side == {"left", "right"}

\* null / undefined player
NoPlayer == [id |-> 0, gender |-> "none"]
MkPlayer(i, g) == [id |-> i, gender |-> g]
MkCourtSlot(p, i) == [player |-> p, slotIndex |-> i]
MkSubSlot(p) == [player |-> p]

At(a, i) == a[i + 1]
Min(a, b) == IF a <= b THEN a ELSE b
Max(a, b) == IF a >= b THEN a ELSE b
Range(s) == {s[i] : i \in DOMAIN s}

\* Array.prototype.slice(start, end), negative indices counted from the end.
JsIndex(i, len) == IF i < 0 THEN Max(len + i, 0) ELSE Min(i, len)
JsSlice(s, start, end) ==
    SubSeq(s, JsIndex(start, Len(s)) + 1, JsIndex(end, Len(s)))
JsSliceFrom(s, start) == JsSlice(s, start, Len(s))

\* [...new Set(path)]: first occurrences, in order.
RECURSIVE UniqueSeq(_)
UniqueSeq(s) ==
    IF s = <<>> THEN <<>>
    ELSE LET front == UniqueSeq(SubSeq(s, 1, Len(s) - 1))
             x == s[Len(s)]
         IN IF x \in Range(front) THEN front ELSE Append(front, x)

\* The integers lo..hi in ascending order, as a sequence.
Ascending(lo, hi) == [k \in 1..Max(hi - lo + 1, 0) |-> lo + k - 1]

IsFemale(p) == p.gender = "female"
IsMale(p) == p.gender = "male"

createEmptyLineup ==
    [playerCount |-> 6,
     minGirls |-> 2,
     courtSlots |-> [i \in 1..6 |-> MkCourtSlot(NoPlayer, i - 1)],
     leftSubs |-> <<>>,
     rightSubs |-> <<>>]

\* ------------------------------------------------- layout and rotation path

getGridLayout(playerCount) ==
    IF playerCount <= 3 THEN [rows |-> 1, cols |-> playerCount]
    ELSE IF playerCount = 4 THEN [rows |-> 2, cols |-> 2]
    ELSE IF playerCount <= 6 THEN [rows |-> 2, cols |-> 3]
    ELSE [rows |-> 2, cols |-> 3]

\* Court: getGridLayout of the court renderer
CourtGetGridLayout(playerCount) ==
    IF playerCount <= 3 THEN [rows |-> 1, cols |-> playerCount]
    ELSE IF playerCount = 4 THEN [rows |-> 2, cols |-> 2]
    ELSE IF playerCount <= 6 THEN [rows |-> 2, cols |-> 3]
    ELSE IF playerCount <= 9 THEN [rows |-> 3, cols |-> 3]
    ELSE [rows |-> (playerCount + 3) \div 4, cols |-> 4]

\* The perimeter path before duplicates are removed.
ClockwisePath(playerCount) ==
    LET rows == getGridLayout(playerCount).rows
        cols == getGridLayout(playerCount).cols
        Below(s) == SelectSeq(s, LAMBDA idx : idx < playerCount)
        top == Ascending(0, cols - 1)
        right == Below([k \in 1..Max(rows - 1, 0) |-> k * cols + (cols - 1)])
        bottom == Below([k \in 1..Max(cols - 1, 0) |->
                            (rows - 1) * cols + (cols - 1 - k)])
        left == Below([k \in 1..Max(rows - 2, 0) |-> (rows - 1 - k) * cols])
    IN IF rows = 1 THEN Ascending(0, playerCount - 1)
       ELSE top \o right \o bottom \o left

\* Variant: the slots in row-major order instead of along the perimeter.
generateClockwiseRotation_RowMajor(playerCount) ==
    IF playerCount <= 1 THEN [s \in {0} |-> 0]
    ELSE [current \in 0..(playerCount - 1) |-> (current + 1) % playerCount]

\* Variant: neighbouring slots change places two by two.
generateClockwiseRotation_InPairs(playerCount) ==
    IF playerCount <= 1 THEN [s \in {0} |-> 0]
    ELSE [current \in 0..(playerCount - 1) |->
             IF current % 2 = 1 THEN current - 1
             ELSE IF current + 1 < playerCount THEN current + 1 ELSE current]

generateClockwiseRotation(playerCount) ==
    IF playerCount <= 1 THEN [s \in {0} |-> 0]
    ELSE LET uniquePath == UniqueSeq(ClockwisePath(playerCount))
             PosOf(x) == CHOOSE i \in 1..Len(uniquePath) : uniquePath[i] = x
         IN [current \in Range(uniquePath) |->
                uniquePath[(PosOf(current) % Len(uniquePath)) + 1]]

\* Variant: the counter-clockwise map is the clockwise map.
generateCounterClockwiseRotation_Clockwise(playerCount) ==
    generateClockwiseRotation(playerCount)

\* Object.entries visits the integer keys in ascending order; a later entry
\* with the same target overwrites an earlier one.
generateCounterClockwiseRotation(playerCount) ==
    LET clockwise == generateClockwiseRotation(playerCount)
    IN [to \in {clockwise[f] : f \in DOMAIN clockwise} |->
           CHOOSE from \in DOMAIN clockwise :
               /\ clockwise[from] = to
               /\ \A g \in DOMAIN clockwise : clockwise[g] = to => g <= from]

\* Variant: a backward rotation enters and exits where a forward one does.
getSubPositions_ForwardOnly(playerCount, direction) ==
    LET rows == getGridLayout(playerCount).rows
        cols == getGridLayout(playerCount).cols
        backLeft == (rows - 1) * cols
    IN [LEFT_ENTRY |-> 0,
        LEFT_EXIT |-> IF backLeft < playerCount THEN backLeft ELSE 0,
        RIGHT_ENTRY |-> Min((rows - 1) * cols + (cols - 1), playerCount - 1),
        RIGHT_EXIT |-> cols - 1]

getSubPositions(playerCount, direction) ==
    LET rows == getGridLayout(playerCount).rows
        cols == getGridLayout(playerCount).cols
        frontLeft == 0
        backLeft == (rows - 1) * cols
        frontRight == cols - 1
        backRight == Min((rows - 1) * cols + (cols - 1), playerCount - 1)
    IN IF direction = "forward"
       THEN [LEFT_ENTRY |-> frontLeft,
             LEFT_EXIT |-> IF backLeft < playerCount THEN backLeft ELSE frontLeft,
             RIGHT_ENTRY |-> backRight,
             RIGHT_EXIT |-> frontRight]
       ELSE [LEFT_ENTRY |-> IF backLeft < playerCount THEN backLeft ELSE frontLeft,
             LEFT_EXIT |-> frontLeft,
             RIGHT_ENTRY |-> frontRight,
             RIGHT_EXIT |-> backRight]

compactSubs(subs) == SelectSeq(subs, LAMBDA s : s.player # NoPlayer)

\* ------------------------------------------------------------ handleRotate
\* Every operator below takes the lineup l the handler reads (the active
\* lineup of the render that created the handler) and the direction.

NoSub == MkSubSlot(NoPlayer)

currentPlayers(l) == [i \in 1..Len(l.courtSlots) |-> l.courtSlots[i].player]

\* players[i], undefined (no player) when i is outside the array
PlayerAt(players, i) ==
    IF i >= 0 /\ i < Len(players) THEN At(players, i) ELSE NoPlayer

\* The two maps for each court size, computed once per size.
ClockwiseMaps == [n \in 0..README_MAX_COURT_SIZE |-> generateClockwiseRotation(n)]
CounterClockwiseMaps ==
    [n \in 0..README_MAX_COURT_SIZE |-> generateCounterClockwiseRotation(n)]

rotationMap(l, direction) ==
    IF direction = "forward"
    THEN ClockwiseMaps[l.playerCount]
    ELSE CounterClockwiseMaps[l.playerCount]

leftFilledSubs(l) == compactSubs(l.leftSubs)
rightFilledSubs(l) == compactSubs(l.rightSubs)

leftSubEntering(l, direction) ==
    LET f == leftFilledSubs(l)
    IN IF Len(f) > 0
       THEN (IF direction = "forward" THEN f[1] ELSE f[Len(f)])
       ELSE NoSub

\* Variant: the right bench gives its first entry forward and its last backward.
rightSubEntering_LikeLeft(l, direction) ==
    LET f == rightFilledSubs(l)
    IN IF Len(f) > 0
       THEN (IF direction = "forward" THEN f[1] ELSE f[Len(f)])
       ELSE NoSub

rightSubEntering(l, direction) ==
    LET f == rightFilledSubs(l)
    IN IF Len(f) > 0
       THEN (IF direction = "forward" THEN f[Len(f)] ELSE f[1])
       ELSE NoSub

leftWillSub(l, direction) == leftSubEntering(l, direction) # NoSub
rightWillSub(l, direction) == rightSubEntering(l, direction) # NoSub

leftExitPlayer(l, direction) ==
    PlayerAt(currentPlayers(l), getSubPositions(l.playerCount, direction).LEFT_EXIT)
rightExitPlayer(l, direction) ==
    PlayerAt(currentPlayers(l), getSubPositions(l.playerCount, direction).RIGHT_EXIT)

girlsRemaining(l, direction) ==
    LET pos == getSubPositions(l.playerCount, direction)
        leftWill == leftWillSub(l, direction)
        rightWill == rightWillSub(l, direction)
        players == currentPlayers(l)
    IN Cardinality({i \in 0..(l.playerCount - 1) :
           /\ ~(leftWill /\ i = pos.LEFT_EXIT)
           /\ ~(rightWill /\ i = pos.RIGHT_EXIT)
           /\ IsFemale(PlayerAt(players, i))})

girlsEntering(l, direction) ==
    (IF leftWillSub(l, direction) /\ IsFemale(leftSubEntering(l, direction).player)
     THEN 1 ELSE 0)
    + (IF rightWillSub(l, direction) /\ IsFemale(rightSubEntering(l, direction).player)
       THEN 1 ELSE 0)

totalGirlsAfter(l, direction) == girlsRemaining(l, direction) + girlsEntering(l, direction)

leftExitIsFemale(l, direction) ==
    leftWillSub(l, direction) /\ IsFemale(leftExitPlayer(l, direction))
rightExitIsFemale(l, direction) ==
    rightWillSub(l, direction) /\ IsFemale(rightExitPlayer(l, direction))

\* Variant: the handler without its quota check, no exit is ever blocked.
BlockedExits_NeverBlocked(l, direction) == [left |-> FALSE, right |-> FALSE]

\* Variant: the handler blocks every exit that holds a woman on a side with
\* an entrant, whether or not the quota is under pressure.
BlockedExits_WithoutPressure(l, direction) ==
    [left |-> leftExitIsFemale(l, direction), right |-> rightExitIsFemale(l, direction)]

\* The pair (blockLeftExit, blockRightExit) the handler decides on.
BlockedExits(l, direction) ==
    LET lf == leftExitIsFemale(l, direction)
        rf == rightExitIsFemale(l, direction)
        rem == girlsRemaining(l, direction)
        ent == girlsEntering(l, direction)
        girlsIfBlockLeft == rem + (IF lf THEN 1 ELSE 0)
        girlsIfBlockRight == rem + (IF rf THEN 1 ELSE 0)
        girlsIfBlockBoth == rem + (IF lf THEN 1 ELSE 0) + (IF rf THEN 1 ELSE 0)
    IN IF rem + ent < l.minGirls
       THEN IF girlsIfBlockBoth + ent >= l.minGirls
            THEN IF girlsIfBlockLeft + ent >= l.minGirls /\ lf
                 THEN [left |-> TRUE, right |-> FALSE]
                 ELSE IF girlsIfBlockRight + ent >= l.minGirls /\ rf
                      THEN [left |-> FALSE, right |-> TRUE]
                      ELSE [left |-> lf, right |-> rf]
            ELSE [left |-> lf, right |-> rf]
       ELSE [left |-> FALSE, right |-> FALSE]

blockLeftExit(l, direction) == BlockedExits(l, direction).left
blockRightExit(l, direction) == BlockedExits(l, direction).right

leftSubbing(l, direction) == leftWillSub(l, direction) /\ ~blockLeftExit(l, direction)
rightSubbing(l, direction) == rightWillSub(l, direction) /\ ~blockRightExit(l, direction)

\* newPlayers[k] = p on an array indexed 0..; a write to an index that is not a
\* slot of the array leaves the slots as they are.
WriteSlot(np, k, p) == IF k \in DOMAIN np THEN [np EXCEPT ![k] = p] ELSE np

\* rotationMap[slot], or -1 (undefined: no slot) when the map has no such key.
NextOf(map, slot) == IF slot \in DOMAIN map THEN map[slot] ELSE -1

\* What the handler has computed when the "Apply rotation" loop starts.
RotationContext(l, direction) ==
    LET blocked == BlockedExits(l, direction)
        leftIn == leftSubEntering(l, direction)
        rightIn == rightSubEntering(l, direction)
    IN [pos |-> getSubPositions(l.playerCount, direction),
        map |-> rotationMap(l, direction),
        players |-> currentPlayers(l),
        leftSubEntering |-> leftIn,
        rightSubEntering |-> rightIn,
        leftExitPlayer |-> leftExitPlayer(l, direction),
        rightExitPlayer |-> rightExitPlayer(l, direction),
        blockLeftExit |-> blocked.left,
        blockRightExit |-> blocked.right,
        leftSubbing |-> leftIn # NoSub /\ ~blocked.left,
        rightSubbing |-> rightIn # NoSub /\ ~blocked.right]

\* Variant: the occupant of a blocked exit keeps its slot instead of moving
\* to its side's entry slot.
RotateSlot_BlockedStays(c, slot, np) ==
    LET player == PlayerAt(c.players, slot)
        next1 == NextOf(c.map, slot)
        next2 == IF next1 = c.pos.LEFT_ENTRY /\ (c.leftSubbing \/ c.blockLeftExit)
                 THEN NextOf(c.map, c.pos.LEFT_EXIT) ELSE next1
        next3 == IF next2 = c.pos.RIGHT_ENTRY /\ (c.rightSubbing \/ c.blockRightExit)
                 THEN NextOf(c.map, c.pos.RIGHT_EXIT) ELSE next2
    IN IF slot = c.pos.LEFT_EXIT
       THEN IF c.blockLeftExit THEN WriteSlot(np, slot, player)
            ELSE IF c.leftSubbing THEN np
            ELSE WriteSlot(np, next1, player)
       ELSE IF slot = c.pos.RIGHT_EXIT
       THEN IF c.blockRightExit THEN WriteSlot(np, slot, player)
            ELSE IF c.rightSubbing THEN np
            ELSE WriteSlot(np, next1, player)
       ELSE WriteSlot(np, next3, player)

\* One pass of the "Apply rotation" loop for the given slot.
RotateSlot(c, slot, np) ==
    LET player == PlayerAt(c.players, slot)
        next1 == NextOf(c.map, slot)
        next2 == IF next1 = c.pos.LEFT_ENTRY /\ (c.leftSubbing \/ c.blockLeftExit)
                 THEN NextOf(c.map, c.pos.LEFT_EXIT) ELSE next1
        next3 == IF next2 = c.pos.RIGHT_ENTRY /\ (c.rightSubbing \/ c.blockRightExit)
                 THEN NextOf(c.map, c.pos.RIGHT_EXIT) ELSE next2
    IN IF slot = c.pos.LEFT_EXIT
       THEN IF c.blockLeftExit THEN WriteSlot(np, c.pos.LEFT_ENTRY, player)
            ELSE IF c.leftSubbing THEN np
            ELSE WriteSlot(np, next1, player)
       ELSE IF slot = c.pos.RIGHT_EXIT
       THEN IF c.blockRightExit THEN WriteSlot(np, c.pos.RIGHT_ENTRY, player)
            ELSE IF c.rightSubbing THEN np
            ELSE WriteSlot(np, next1, player)
       ELSE WriteSlot(np, next3, player)

RECURSIVE RotateLoop(_, _, _, _)
RotateLoop(c, playerCount, slot, np) ==
    IF slot >= playerCount THEN np
    ELSE RotateLoop(c, playerCount, slot + 1, RotateSlot(c, slot, np))

\* The array newPlayers after the loop and the placement of the entering subs.
NewPlayersIn(c, playerCount) ==
    LET empty == [k \in 0..(playerCount - 1) |-> NoPlayer]
        rotated == RotateLoop(c, playerCount, 0, empty)
        withLeft == IF c.leftSubbing
                    THEN WriteSlot(rotated, c.pos.LEFT_ENTRY, c.leftSubEntering.player)
                    ELSE rotated
    IN IF c.rightSubbing
       THEN WriteSlot(withLeft, c.pos.RIGHT_ENTRY, c.rightSubEntering.player)
       ELSE withLeft

newPlayers(l, direction) == NewPlayersIn(RotationContext(l, direction), l.playerCount)

PlayersOf(subs) ==
    LET filled == compactSubs(subs) IN [i \in 1..Len(filled) |-> filled[i].player]
AsSubs(players) == [i \in 1..Len(players) |-> MkSubSlot(players[i])]

\* Variant: the player leaving the court joins the end of the left bench in
\* both directions.
RotatedLeftSubs_AlwaysAppends(c, prev, direction) ==
    LET players == PlayersOf(prev)
    IN IF c.leftSubbing /\ c.leftSubEntering # NoSub /\ c.leftExitPlayer # NoPlayer
       THEN AsSubs(JsSliceFrom(players, 1) \o <<c.leftExitPlayer>>)
       ELSE prev

\* Variant: the player leaving the court joins the left bench while the
\* entrant stays on it.
RotatedLeftSubs_EntrantStays(c, prev, direction) ==
    LET players == PlayersOf(prev)
    IN IF c.leftSubbing /\ c.leftSubEntering # NoSub /\ c.leftExitPlayer # NoPlayer
       THEN IF direction = "forward"
            THEN AsSubs(players \o <<c.leftExitPlayer>>)
            ELSE AsSubs(<<c.leftExitPlayer>> \o players)
       ELSE prev

\* setLeftSubs of handleRotate
RotatedLeftSubs(c, prev, direction) ==
    LET players == PlayersOf(prev)
    IN IF c.leftSubbing /\ c.leftSubEntering # NoSub /\ c.leftExitPlayer # NoPlayer
       THEN IF direction = "forward"
            THEN AsSubs(JsSliceFrom(players, 1) \o <<c.leftExitPlayer>>)
            ELSE AsSubs(<<c.leftExitPlayer>> \o JsSlice(players, 0, -1))
       ELSE prev

\* Variant: the player leaving the court takes the place of the entrant, at
\* the end of the right bench the entrant came from.
RotatedRightSubs_SameEnd(c, prev, direction) ==
    LET players == PlayersOf(prev)
    IN IF c.rightSubbing /\ c.rightSubEntering # NoSub /\ c.rightExitPlayer # NoPlayer
       THEN IF direction = "forward"
            THEN AsSubs(JsSlice(players, 0, -1) \o <<c.rightExitPlayer>>)
            ELSE AsSubs(<<c.rightExitPlayer>> \o JsSliceFrom(players, 1))
       ELSE prev

\* setRightSubs of handleRotate
RotatedRightSubs(c, prev, direction) ==
    LET players == PlayersOf(prev)
    IN IF c.rightSubbing /\ c.rightSubEntering # NoSub /\ c.rightExitPlayer # NoPlayer
       THEN IF direction = "forward"
            THEN AsSubs(<<c.rightExitPlayer>> \o JsSlice(players, 0, -1))
            ELSE AsSubs(JsSliceFrom(players, 1) \o <<c.rightExitPlayer>>)
       ELSE prev

\* setCourtSlots of handleRotate
RotatedCourtSlots(c, prev, playerCount) ==
    LET np == NewPlayersIn(c, playerCount)
    IN [i \in 1..Len(prev) |->
           [prev[i] EXCEPT !.player = IF (i - 1) \in DOMAIN np THEN np[i - 1]
                                      ELSE NoPlayer]]

\* The active lineup after handleRotate(direction).
Rotated(l, direction) ==
    LET c == RotationContext(l, direction)
    IN [l EXCEPT !.leftSubs = RotatedLeftSubs(c, l.leftSubs, direction),
                 !.rightSubs = RotatedRightSubs(c, l.rightSubs, direction),
                 !.courtSlots = RotatedCourtSlots(c, l.courtSlots, l.playerCount)]

\* -------------------------------------------------- handlePlayerCountChange

\* Indices (0-based) of the occupied court slots, ascending: allPlayers.
OccupiedIndices(l) ==
    SelectSeq(Ascending(0, Len(l.courtSlots) - 1),
              LAMBDA i : At(l.courtSlots, i).player # NoPlayer)

Reverse(s) == [k \in 1..Len(s) |-> s[Len(s) - k + 1]]

\* Variant: only the occupants that no longer fit on the smaller court are
\* displaced.
toDisplaceIndices_OnlyOverflow(l, count) ==
    LET all == OccupiedIndices(l)
        numToDisplace == Max(0, Len(all) - count)
        men == Reverse(SelectSeq(all, LAMBDA i : IsMale(At(l.courtSlots, i).player)))
        women == Reverse(SelectSeq(all, LAMBDA i : IsFemale(At(l.courtSlots, i).player)))
        afterMen == Range(SubSeq(men, 1, Min(Len(men), numToDisplace)))
        stillNeeded == numToDisplace - Cardinality(afterMen)
    IN afterMen \cup Range(SubSeq(women, 1, Min(Len(women), stillNeeded)))

\* Variant: women from the end of the court first, then men.
toDisplaceIndices_WomenFirst(l, count) ==
    LET numToDisplace == l.playerCount - count
        all == OccupiedIndices(l)
        men == Reverse(SelectSeq(all, LAMBDA i : IsMale(At(l.courtSlots, i).player)))
        women == Reverse(SelectSeq(all, LAMBDA i : IsFemale(At(l.courtSlots, i).player)))
        afterWomen == Range(SubSeq(women, 1, Min(Len(women), numToDisplace)))
        stillNeeded == numToDisplace - Cardinality(afterWomen)
    IN afterWomen \cup Range(SubSeq(men, 1, Min(Len(men), stillNeeded)))

\* toDisplaceIndices: men from the end of the court first, then women.
toDisplaceIndices(l, count) ==
    LET numToDisplace == l.playerCount - count
        all == OccupiedIndices(l)
        men == Reverse(SelectSeq(all, LAMBDA i : IsMale(At(l.courtSlots, i).player)))
        women == Reverse(SelectSeq(all, LAMBDA i : IsFemale(At(l.courtSlots, i).player)))
        afterMen == Range(SubSeq(men, 1, Min(Len(men), numToDisplace)))
        stillNeeded == numToDisplace - Cardinality(afterMen)
    IN afterMen \cup Range(SubSeq(women, 1, Min(Len(women), stillNeeded)))

\* Variant: the kept players in reverse court order.
playersToKeep_Reversed(l, count) ==
    LET kept == Reverse(SelectSeq(OccupiedIndices(l),
                                  LAMBDA i : i \notin toDisplaceIndices(l, count)))
    IN [k \in 1..Len(kept) |-> At(l.courtSlots, kept[k]).player]

playersToKeep(l, count) ==
    LET kept == SelectSeq(OccupiedIndices(l),
                          LAMBDA i : i \notin toDisplaceIndices(l, count))
    IN [k \in 1..Len(kept) |-> At(l.courtSlots, kept[k]).player]

\* Variant: the displaced players in descending court order.
displacedPlayers_Descending(l, count) ==
    LET gone == Reverse(SelectSeq(OccupiedIndices(l),
                                  LAMBDA i : i \in toDisplaceIndices(l, count)))
    IN [k \in 1..Len(gone) |-> At(l.courtSlots, gone[k]).player]

displacedPlayers(l, count) ==
    LET gone == SelectSeq(OccupiedIndices(l),
                          LAMBDA i : i \in toDisplaceIndices(l, count))
    IN [k \in 1..Len(gone) |-> At(l.courtSlots, gone[k]).player]

\* count > oldCount
Grown(l, count) ==
    LET oldCount == l.playerCount
        newSlotCount == count - oldCount
        leftPlayers == PlayersOf(l.leftSubs)
        rightPlayers == PlayersOf(l.rightSubs)
        availablePlayers == leftPlayers \o rightPlayers
        playersToMove == JsSlice(availablePlayers, 0, newSlotCount)
        leftSubsToRemove == Min(Len(leftPlayers), newSlotCount)
        rightSubsToRemove == Max(0, newSlotCount - Len(leftPlayers))
        newSlots == [i \in 1..newSlotCount |->
                        MkCourtSlot(PlayerAt(playersToMove, i - 1), oldCount + i - 1)]
    IN [l EXCEPT
           !.playerCount = count,
           !.courtSlots = l.courtSlots \o newSlots,
           !.leftSubs = IF leftSubsToRemove > 0
                        THEN JsSliceFrom(l.leftSubs, leftSubsToRemove)
                        ELSE l.leftSubs,
           !.rightSubs = IF rightSubsToRemove > 0
                         THEN JsSliceFrom(l.rightSubs, rightSubsToRemove)
                         ELSE l.rightSubs]

\* Variant: every displaced player joins the left bench, whatever room it has.
Shrunk_AllToLeft(l, count) ==
    LET keep == playersToKeep(l, count)
        displaced == displacedPlayers(l, count)
        cut == JsSlice(l.courtSlots, 0, count)
    IN [l EXCEPT
           !.playerCount = count,
           !.courtSlots = [i \in 1..Len(cut) |->
                              [cut[i] EXCEPT !.slotIndex = i - 1,
                                             !.player = PlayerAt(keep, i - 1)]],
           !.leftSubs = l.leftSubs \o AsSubs(displaced)]

\* count < oldCount
Shrunk(l, count) ==
    LET keep == playersToKeep(l, count)
        displaced == displacedPlayers(l, count)
        cut == JsSlice(l.courtSlots, 0, count)
        leftAvailable == MAX_SUBS_PER_SIDE - Len(l.leftSubs)
        rightAvailable == MAX_SUBS_PER_SIDE - Len(l.rightSubs)
        toLeft == JsSlice(displaced, 0, leftAvailable)
        toRight == JsSlice(displaced, leftAvailable, leftAvailable + rightAvailable)
    IN [l EXCEPT
           !.playerCount = count,
           !.courtSlots = [i \in 1..Len(cut) |->
                              [cut[i] EXCEPT !.slotIndex = i - 1,
                                             !.player = PlayerAt(keep, i - 1)]],
           !.leftSubs = IF Len(displaced) > 0 /\ Len(toLeft) > 0
                        THEN l.leftSubs \o AsSubs(toLeft) ELSE l.leftSubs,
           !.rightSubs = IF Len(displaced) > 0 /\ Len(toRight) > 0
                         THEN l.rightSubs \o AsSubs(toRight) ELSE l.rightSubs]

\* Variant: the quota is left as it is.
Resized_QuotaKept(l, count) ==
    LET body == IF count > l.playerCount THEN Grown(l, count)
                ELSE IF count < l.playerCount THEN Shrunk(l, count)
                ELSE l
    IN [body EXCEPT !.playerCount = count]

\* The active lineup after handlePlayerCountChange(count).
Resized(l, count) ==
    LET body == IF count > l.playerCount THEN Grown(l, count)
                ELSE IF count < l.playerCount THEN Shrunk(l, count)
                ELSE l
    IN [body EXCEPT !.playerCount = count,
                    !.minGirls = Min(l.minGirls, count)]

\* --------------------------------------- edit form: save and remove a player

NoSlot == [type |-> "none", index |-> -1, side |-> "none"]

SubsOf(l, side) == IF side = "left" THEN l.leftSubs ELSE l.rightSubs
WithSubs(l, side, subs) ==
    IF side = "left" THEN [l EXCEPT !.leftSubs = subs] ELSE [l EXCEPT !.rightSubs = subs]

\* subs[i]?.player: no player when the index is outside the array
SubPlayerAt(subs, i) ==
    IF i >= 0 /\ i < Len(subs) THEN At(subs, i).player ELSE NoPlayer

isCourtFull(l) == \A i \in 1..Len(l.courtSlots) : l.courtSlots[i].player # NoPlayer

handleSlotClick(slotIndex) == [type |-> "court", index |-> slotIndex, side |-> "none"]
handleSubClick(side, slotIndex) == [type |-> "sub", index |-> slotIndex, side |-> side]

\* Variant: the form is opened whatever the length of the bench.
handleAddSub_NoLimit(l, side) ==
    [type |-> "newSub", index |-> Len(SubsOf(l, side)), side |-> side]

\* The slot the form is opened for, or NoSlot when the handler does nothing.
handleAddSub(l, side) ==
    IF Len(SubsOf(l, side)) < MAX_SUBS_PER_SIDE
    THEN [type |-> "newSub", index |-> Len(SubsOf(l, side)), side |-> side]
    ELSE NoSlot

\* SubBench: the "+" button is rendered when canAddSubs && filledSubs.length < 4.
canAddMore(l, side) == isCourtFull(l) /\ Len(compactSubs(SubsOf(l, side))) < 4

\* The values editingSlot can take in lineup l: what the rendered court slots,
\* bench entries and "+" buttons pass to their click handlers.
EditingSlots(l) ==
    {handleSlotClick(l.courtSlots[k].slotIndex) : k \in 1..Len(l.courtSlots)}
    \cup UNION {{handleSubClick(side, i) :
                    i \in 0..(Len(compactSubs(SubsOf(l, side))) - 1)} : side \in Side}
    \cup ({handleAddSub(l, side) : side \in {sd \in Side : canAddMore(l, sd)}}
          \ {NoSlot})

getCurrentPlayer(l, editingSlot) ==
    IF editingSlot.type = "court" THEN PlayerAt(currentPlayers(l), editingSlot.index)
    ELSE IF editingSlot.type = "sub"
         THEN SubPlayerAt(SubsOf(l, editingSlot.side), editingSlot.index)
         ELSE NoPlayer

\* The active lineup after handleSavePlayer, for the form's gender and the id
\* generateId() returns when the slot holds no player yet.
Saved(l, editingSlot, gender, newId) ==
    LET existingPlayer == getCurrentPlayer(l, editingSlot)
        player == MkPlayer(IF existingPlayer # NoPlayer THEN existingPlayer.id ELSE newId,
                           gender)
        prev == SubsOf(l, editingSlot.side)
    IN IF editingSlot.type = "court"
       THEN [l EXCEPT !.courtSlots =
                [i \in 1..Len(l.courtSlots) |->
                    IF i - 1 = editingSlot.index
                    THEN [l.courtSlots[i] EXCEPT !.player = player]
                    ELSE l.courtSlots[i]]]
       ELSE WithSubs(l, editingSlot.side,
                IF editingSlot.index >= Len(prev)
                THEN Append(prev, MkSubSlot(player))
                ELSE [i \in 1..Len(prev) |->
                         IF i - 1 = editingSlot.index
                         THEN [prev[i] EXCEPT !.player = player]
                         ELSE prev[i]])

SetCourtPlayer(l, index, p) ==
    [l EXCEPT !.courtSlots =
        [i \in 1..Len(l.courtSlots) |->
            IF i - 1 = index THEN [l.courtSlots[i] EXCEPT !.player = p]
            ELSE l.courtSlots[i]]]

SetSubPlayer(subs, index, p) ==
    [i \in 1..Len(subs) |->
        IF i - 1 = index THEN [subs[i] EXCEPT !.player = p] ELSE subs[i]]

\* The active lineup after handleRemovePlayer.
Removed(l, editingSlot) ==
    LET leftFilled == leftFilledSubs(l)
        rightFilled == rightFilledSubs(l)
        replacementSub == IF Len(leftFilled) > 0 THEN leftFilled[1]
                          ELSE IF Len(rightFilled) > 0 THEN rightFilled[1]
                          ELSE NoSub
    IN IF editingSlot.type = "court"
       THEN IF replacementSub # NoSub
            THEN LET onCourt == SetCourtPlayer(l, editingSlot.index, replacementSub.player)
                 IN IF Len(leftFilled) > 0
                    THEN [onCourt EXCEPT !.leftSubs = JsSliceFrom(l.leftSubs, 1)]
                    ELSE [onCourt EXCEPT !.rightSubs = JsSliceFrom(l.rightSubs, 1)]
            ELSE SetCourtPlayer(l, editingSlot.index, NoPlayer)
       ELSE IF editingSlot.type = "sub"
            THEN WithSubs(l, editingSlot.side,
                     compactSubs(SetSubPlayer(SubsOf(l, editingSlot.side),
                                              editingSlot.index, NoPlayer)))
            ELSE l

\* ------------------------------------------------------------ drag and drop

\* Slot ids: `court-${index}` and `sub-${side}-${index}`, kept as their parts.
NoId == [kind |-> "none", side |-> "none", index |-> -1]
CourtId(index) == [kind |-> "court", side |-> "none", index |-> index]
SubId(side, index) == [kind |-> "sub", side |-> side, index |-> index]

parseSlotId(id) ==
    IF id.kind = "court" THEN [type |-> "court", index |-> id.index, side |-> "none"]
    ELSE IF id.kind = "sub" THEN [type |-> "sub", index |-> id.index, side |-> id.side]
    ELSE NoSlot

getPlayerFromSlot(l, slot) ==
    IF slot.type = "court" THEN PlayerAt(currentPlayers(l), slot.index)
    ELSE SubPlayerAt(SubsOf(l, slot.side), slot.index)

girlsOnCourt(l) ==
    Cardinality({i \in 1..Len(l.courtSlots) : IsFemale(l.courtSlots[i].player)})

\* Variant: the quota check of a drop never objects.
wouldViolateMinGirls_Never(l, player, incomingSub) == FALSE

wouldViolateMinGirls(l, player, incomingSub) ==
    IF player = NoPlayer \/ ~IsFemale(player) THEN FALSE
    ELSE IF IsFemale(incomingSub) THEN FALSE
    ELSE girlsOnCourt(l) - 1 < l.minGirls

\* courtSlots.findIndex(s => s.player?.id === id): 0-based, -1 when absent
findIndex(courtSlots, id) ==
    LET hits == {i \in 1..Len(courtSlots) :
                    courtSlots[i].player # NoPlayer /\ courtSlots[i].player.id = id}
    IN IF hits = {} THEN -1
       ELSE (CHOOSE i \in hits : \A j \in hits : i <= j) - 1

\* Variant: the elements at `from` and `to` change places.
arrayMove_Exchange(array, from, to) ==
    [i \in 1..Len(array) |-> IF i = from + 1 THEN At(array, to)
                             ELSE IF i = to + 1 THEN At(array, from)
                             ELSE array[i]]

\* arrayMove of @dnd-kit/sortable: take the element out, insert it at `to`.
arrayMove(array, from, to) ==
    LET without == SubSeq(array, 1, from) \o SubSeq(array, from + 2, Len(array))
    IN SubSeq(without, 1, to) \o <<At(array, from)>> \o SubSeq(without, to + 1, Len(without))

\* Variant: the moved slots keep the slotIndex they had.
Renumbered_Kept(slots) == slots

\* newSlots.map((slot, i) => ({ ...slot, slotIndex: i }))
Renumbered(slots) == [i \in 1..Len(slots) |-> [slots[i] EXCEPT !.slotIndex = i - 1]]

\* originalCourtSlots = null
NullSlots == <<MkCourtSlot(NoPlayer, -1)>>
\* originalSlotIndex = null
NullIndex == -1

\* Ids of the slots that can be picked up (useDraggable, disabled: !player).
DraggableIds(l) ==
    {CourtId(l.courtSlots[k].slotIndex) :
        k \in {j \in 1..Len(l.courtSlots) : l.courtSlots[j].player # NoPlayer}}
    \cup UNION {{SubId(side, i) : i \in 0..(Len(compactSubs(SubsOf(l, side))) - 1)} :
                  side \in Side}

\* Ids of the slots that accept a drop (useDroppable, disabled: !canDrop).
DroppableIds(l) ==
    {CourtId(l.courtSlots[k].slotIndex) : k \in 1..Len(l.courtSlots)}
    \cup UNION {{SubId(side, i) : i \in 0..(Len(compactSubs(SubsOf(l, side))) - 1)} :
                  side \in Side}

\* Variant: the preview is never undone when the pointer leaves the court.
RestoredIfNeeded_Never(l, origSlots, origIndex, dragPlayer) == l

\* restoreOriginalIfNeeded of handleDragOver
RestoredIfNeeded(l, origSlots, origIndex, dragPlayer) ==
    IF /\ origSlots # NullSlots
       /\ dragPlayer # NoPlayer
       /\ origIndex # NullIndex
       /\ findIndex(l.courtSlots, dragPlayer.id) # origIndex
    THEN [l EXCEPT !.courtSlots = origSlots]
    ELSE l

\* The active lineup after handleDragOver({active, over}).
DraggedOver(l, active, ov, origSlots, origIndex, dragPlayer) ==
    LET activeSlot == parseSlotId(active)
        overSlot == parseSlotId(ov)
        currentIndex == findIndex(l.courtSlots, dragPlayer.id)
        newIndex == overSlot.index
    IN IF ov = NoId THEN RestoredIfNeeded(l, origSlots, origIndex, dragPlayer)
       ELSE IF activeSlot = NoSlot \/ overSlot = NoSlot THEN l
       ELSE IF activeSlot.type = "court" /\ overSlot.type # "court"
            THEN RestoredIfNeeded(l, origSlots, origIndex, dragPlayer)
       ELSE IF activeSlot.type = "court" /\ overSlot.type = "court"
            THEN IF dragPlayer = NoPlayer THEN l
                 ELSE IF currentIndex # -1 /\ currentIndex # newIndex
                      THEN [l EXCEPT !.courtSlots =
                               Renumbered(arrayMove(l.courtSlots, currentIndex, newIndex))]
                      ELSE l
       ELSE l

\* handleDragEnd, "Case 2 & 3": court <-> sub
CourtSubSwapped(l, activeSlot, overSlot, draggedPlayer) ==
    LET subSlot == IF activeSlot.type = "sub" THEN activeSlot ELSE overSlot
        subPlayer == SubPlayerAt(SubsOf(l, subSlot.side), subSlot.index)
        fromCourt == activeSlot.type = "court" /\ draggedPlayer # NoPlayer
        courtPlayerIndex == IF fromCourt THEN findIndex(l.courtSlots, draggedPlayer.id)
                            ELSE overSlot.index
        courtPlayer == IF fromCourt THEN draggedPlayer
                       ELSE PlayerAt(currentPlayers(l), courtPlayerIndex)
        onCourt == SetCourtPlayer(l, courtPlayerIndex, subPlayer)
    IN IF courtPlayerIndex = -1 THEN l
       ELSE IF wouldViolateMinGirls(l, courtPlayer, subPlayer) THEN l
       ELSE WithSubs(onCourt, subSlot.side,
                SetSubPlayer(SubsOf(l, subSlot.side), subSlot.index, courtPlayer))

\* handleDragEnd, sub <-> sub on the same or on different sides
SubSubSwapped(l, activeSlot, overSlot) ==
    LET activeSubs == SubsOf(l, activeSlot.side)
        overSubs == SubsOf(l, overSlot.side)
        activePlayer == SubPlayerAt(activeSubs, activeSlot.index)
        overPlayer == SubPlayerAt(overSubs, overSlot.index)
    IN IF activeSlot.side = overSlot.side
       THEN WithSubs(l, activeSlot.side,
                SetSubPlayer(SetSubPlayer(activeSubs, activeSlot.index, overPlayer),
                             overSlot.index, activePlayer))
       ELSE WithSubs(
                WithSubs(l, activeSlot.side,
                    SetSubPlayer(activeSubs, activeSlot.index, overPlayer)),
                overSlot.side,
                SetSubPlayer(overSubs, overSlot.index, activePlayer))

\* Variant: a drop on the slot the player was picked up from empties that slot.
DragEnded_OwnSlotEmptied(l, active, ov, origSlots, origIndex, draggedPlayer) ==
    IF active = ov /\ parseSlotId(active) # NoSlot
    THEN IF parseSlotId(active).type = "court"
         THEN SetCourtPlayer(l, parseSlotId(active).index, NoPlayer)
         ELSE WithSubs(l, parseSlotId(active).side,
                  SetSubPlayer(SubsOf(l, parseSlotId(active).side),
                               parseSlotId(active).index, NoPlayer))
    ELSE l

\* The active lineup after handleDragEnd({active, over}).
DragEnded(l, active, ov, origSlots, origIndex, draggedPlayer) ==
    LET activeSlot == parseSlotId(active)
        overSlot == parseSlotId(ov)
        restored == IF origSlots # NullSlots THEN [l EXCEPT !.courtSlots = origSlots] ELSE l
        activePlayer == getPlayerFromSlot(l, activeSlot)
        overPlayer == getPlayerFromSlot(l, overSlot)
    IN IF ov = NoId THEN restored
       ELSE IF active = ov THEN restored
       ELSE IF activeSlot = NoSlot \/ overSlot = NoSlot THEN l
       ELSE IF /\ overSlot.type = "court"
               /\ origIndex # NullIndex
               /\ overSlot.index = origIndex
               /\ origSlots # NullSlots
            THEN [l EXCEPT !.courtSlots = origSlots]
       ELSE IF activeSlot.type = "court" /\ overSlot.type = "sub" /\ overPlayer = NoPlayer
            THEN l
       ELSE IF /\ activeSlot.type = "court" /\ overSlot.type = "sub"
               /\ wouldViolateMinGirls(l, activePlayer, overPlayer)
            THEN l
       ELSE IF activeSlot.type = "court" /\ overSlot.type = "court" THEN l
       ELSE IF activeSlot.type = "sub" /\ overSlot.type = "sub"
            THEN SubSubSwapped(l, activeSlot, overSlot)
       ELSE CourtSubSwapped(l, activeSlot, overSlot, draggedPlayer)

\* ----------------------------------------------------------------- state

VARIABLES
    activeLineupIndex,   \* useState(loadActiveIndex)
    lineups,             \* useState(loadFromStorage): NUM_LINEUPS lineups
    activeId,            \* id of the slot being dragged, NoId when none
    activeDragPlayer,    \* the player picked up, NoPlayer when none
    originalCourtSlots,  \* court snapshot of a court drag, NullSlots when none
    originalSlotIndex,   \* start index of a court drag, NullIndex when none
    over,                \* dnd-kit: the droppable under the pointer, NoId when none
    last,                \* history: the handler that ran last and its arguments
    pre,                 \* history: the active lineup before that handler ran
    lastBefore,          \* history: the handler that ran before the last one
    before,              \* history: the active lineup before that one ran
    gesture,             \* history: the slot and the lineup at the last drag start
    ops,                 \* number of handler calls so far
    hovers               \* number of drag-over events of the current gesture

app == <<activeLineupIndex, lineups>>
drag == <<activeId, activeDragPlayer, originalCourtSlots, originalSlotIndex, over>>
vars == <<activeLineupIndex, lineups, activeId, activeDragPlayer, originalCourtSlots,
          originalSlotIndex, over, last, pre, lastBefore, before, gesture, ops, hovers>>

\* currentLineup and its fields, as destructured by App()
currentLineup == lineups[activeLineupIndex + 1]
playerCount == currentLineup.playerCount
minGirls == currentLineup.minGirls
courtSlots == currentLineup.courtSlots
leftSubs == currentLineup.leftSubs
rightSubs == currentLineup.rightSubs

\* Variant: the update is written to every lineup.
updateCurrentLineup_EveryLineup(newLineup) ==
    lineups' = [i \in 1..Len(lineups) |-> newLineup]

\* setLineups(prev => prev.map((lineup, i) => i === activeLineupIndex ? ... : lineup))
updateCurrentLineup(newLineup) ==
    lineups' = [lineups EXCEPT ![activeLineupIndex + 1] = newLineup]

hasPlayers ==
    \/ \E i \in 1..Len(courtSlots) : courtSlots[i].player # NoPlayer
    \/ \E i \in 1..Len(leftSubs) : leftSubs[i].player # NoPlayer
    \/ \E i \in 1..Len(rightSubs) : rightSubs[i].player # NoPlayer

\* Every player id held anywhere in the application state.
UsedIds ==
    UNION {{l.courtSlots[i].player.id : i \in 1..Len(l.courtSlots)}
           \cup {l.leftSubs[i].player.id : i \in 1..Len(l.leftSubs)}
           \cup {l.rightSubs[i].player.id : i \in 1..Len(l.rightSubs)} :
           l \in Range(lineups)}

\* generateId(): an id no player of the application carries.
generateId == (CHOOSE m \in UsedIds \cup {0} : \A x \in UsedIds \cup {0} : x <= m) + 1

NoOp == [op |-> "start", a |-> "none", i |-> -1, s |-> NoSlot]
Did(op, a, i, s) ==
    /\ last' = [op |-> op, a |-> a, i |-> i, s |-> s]
    /\ pre' = currentLineup
    /\ lastBefore' = last
    /\ before' = pre
    /\ gesture' = IF op = "handleDragStart"
                  THEN [slot |-> s, start |-> currentLineup]
                  ELSE gesture

Idle == activeId = NoId

\* --------------------------------------------------------------- handlers
\* One action per handler. The buttons and the edit form are used between
\* gestures (Idle); a handler's inputs are what the rendered controls pass.

handleRotate(direction) ==
    /\ Idle
    /\ updateCurrentLineup(Rotated(currentLineup, direction))
    /\ Did("handleRotate", direction, -1, NoSlot)
    /\ UNCHANGED <<activeLineupIndex, drag>>

\* Controls, "Players on Court": the minus and the plus button.
handlePlayerCountChange(delta) ==
    /\ Idle
    /\ IF delta < 0 THEN ~(playerCount <= MIN_PLAYER_COUNT)
                    ELSE ~(playerCount >= MAX_PLAYER_COUNT)
    /\ LET count == IF delta < 0 THEN Max(MIN_PLAYER_COUNT, playerCount - 1)
                    ELSE Min(MAX_PLAYER_COUNT, playerCount + 1)
       IN /\ updateCurrentLineup(Resized(currentLineup, count))
          /\ Did("handlePlayerCountChange", "none", count, NoSlot)
    /\ UNCHANGED <<activeLineupIndex, drag>>

\* onPlayerCountChange = handlePlayerCountChange, called with a court size.
onPlayerCountChange(count) ==
    /\ Idle
    /\ updateCurrentLineup(Resized(currentLineup, count))
    /\ Did("handlePlayerCountChange", "none", count, NoSlot)
    /\ UNCHANGED <<activeLineupIndex, drag>>

\* Controls, "Min Females": onMinGirlsChange = setMinGirls.
setMinGirls(delta) ==
    /\ Idle
    /\ IF delta < 0 THEN ~(minGirls <= 0) ELSE ~(minGirls >= playerCount)
    /\ LET min == IF delta < 0 THEN Max(0, minGirls - 1)
                  ELSE Min(playerCount, minGirls + 1)
       IN /\ updateCurrentLineup([currentLineup EXCEPT !.minGirls = min])
          /\ Did("setMinGirls", "none", min, NoSlot)
    /\ UNCHANGED <<activeLineupIndex, drag>>

\* The form opened by a click on a slot or on "+", then "Add" / "Update".
handleSavePlayer(editingSlot, gender) ==
    /\ Idle
    /\ editingSlot \in EditingSlots(currentLineup)
    /\ updateCurrentLineup(Saved(currentLineup, editingSlot, gender, generateId))
    /\ Did("handleSavePlayer", gender, editingSlot.index, editingSlot)
    /\ UNCHANGED <<activeLineupIndex, drag>>

\* onAddSub = handleAddSub, then the form's "Add" when the handler opened it.
onAddSub(side, gender) ==
    /\ Idle
    /\ LET editingSlot == handleAddSub(currentLineup, side)
       IN /\ updateCurrentLineup(IF editingSlot = NoSlot THEN currentLineup
                                 ELSE Saved(currentLineup, editingSlot, gender, generateId))
          /\ Did("handleAddSub", side, Len(SubsOf(currentLineup, side)), editingSlot)
    /\ UNCHANGED <<activeLineupIndex, drag>>

\* The form's "Remove" button, rendered when the slot holds a player.
handleRemovePlayer(editingSlot) ==
    /\ Idle
    /\ editingSlot \in EditingSlots(currentLineup)
    /\ getCurrentPlayer(currentLineup, editingSlot) # NoPlayer
    /\ updateCurrentLineup(Removed(currentLineup, editingSlot))
    /\ Did("handleRemovePlayer", "none", editingSlot.index, editingSlot)
    /\ UNCHANGED <<activeLineupIndex, drag>>

\* "Reset Lineup", rendered when showReset = hasPlayers, then "Reset".
handleResetConfirm ==
    /\ Idle
    /\ hasPlayers
    /\ updateCurrentLineup(createEmptyLineup)
    /\ Did("handleResetConfirm", "none", -1, NoSlot)
    /\ UNCHANGED <<activeLineupIndex, drag>>

\* The lineup tabs: onClick={() => setActiveLineupIndex(index)}
setActiveLineupIndex(index) ==
    /\ Idle
    /\ index \in 0..(Len(lineups) - 1)
    /\ activeLineupIndex' = index
    /\ Did("setActiveLineupIndex", "none", index, NoSlot)
    /\ UNCHANGED <<lineups, drag>>

handleDragStart(id) ==
    /\ Idle
    /\ id \in DraggableIds(currentLineup)
    /\ LET slot == parseSlotId(id)
       IN /\ activeId' = id
          /\ activeDragPlayer' = IF slot # NoSlot
                                 THEN getPlayerFromSlot(currentLineup, slot)
                                 ELSE activeDragPlayer
          /\ originalCourtSlots' = IF slot # NoSlot /\ slot.type = "court"
                                   THEN courtSlots ELSE originalCourtSlots
          /\ originalSlotIndex' = IF slot # NoSlot /\ slot.type = "court"
                                  THEN slot.index ELSE originalSlotIndex
          /\ Did("handleDragStart", "none", -1, slot)
    /\ over' = NoId
    /\ UNCHANGED app

\* dnd-kit reports a drag-over each time the droppable under the pointer changes.
handleDragOver(ov) ==
    /\ ~Idle
    /\ ov \in DroppableIds(currentLineup) \cup {NoId}
    /\ ov # over
    /\ over' = ov
    /\ updateCurrentLineup(DraggedOver(currentLineup, activeId, ov, originalCourtSlots,
                                       originalSlotIndex, activeDragPlayer))
    /\ Did("handleDragOver", "none", -1, parseSlotId(ov))
    /\ UNCHANGED <<activeLineupIndex, activeId, activeDragPlayer, originalCourtSlots,
                   originalSlotIndex>>

ClearDragState ==
    /\ activeId' = NoId
    /\ activeDragPlayer' = NoPlayer
    /\ originalCourtSlots' = NullSlots
    /\ originalSlotIndex' = NullIndex
    /\ over' = NoId

\* Variant: a cancelled gesture keeps the previewed court.
handleDragCancel_KeepsPreview ==
    /\ ~Idle
    /\ ClearDragState
    /\ Did("handleDragCancel", "none", -1, NoSlot)
    /\ UNCHANGED app

handleDragCancel ==
    /\ ~Idle
    /\ updateCurrentLineup(IF originalCourtSlots # NullSlots
                           THEN [currentLineup EXCEPT !.courtSlots = originalCourtSlots]
                           ELSE currentLineup)
    /\ ClearDragState
    /\ Did("handleDragCancel", "none", -1, NoSlot)
    /\ UNCHANGED activeLineupIndex

\* The drop: over is the droppable under the pointer when the gesture ends.
handleDragEnd ==
    /\ ~Idle
    /\ updateCurrentLineup(DragEnded(currentLineup, activeId, over, originalCourtSlots,
                                     originalSlotIndex, activeDragPlayer))
    /\ ClearDragState
    /\ Did("handleDragEnd", "none", -1, parseSlotId(over))
    /\ UNCHANGED activeLineupIndex

\* ------------------------------------------------------------- start-up

\* A lineup as a session leaves it in storage: n court slots, then the left
\* bench, then the right bench; cg, lg and rg give, in that order, the gender
\* of the player each place holds, or "none" for a place that holds nobody.
\* The players carry the ids 1, 2, ... in that order.
StoredPlayer(i, g) == IF g = "none" THEN NoPlayer ELSE MkPlayer(i, g)
StoredLineup(n, m, cg, lg, rg) ==
    [playerCount |-> n,
     minGirls |-> m,
     courtSlots |-> [i \in 1..n |-> MkCourtSlot(StoredPlayer(i, cg[i]), i - 1)],
     leftSubs |-> [i \in 1..Len(lg) |-> MkSubSlot(StoredPlayer(n + i, lg[i]))],
     rightSubs |-> [i \in 1..Len(rg) |->
                      MkSubSlot(StoredPlayer(n + Len(lg) + i, rg[i]))]]

\* Sequences over S of length lo..hi
SeqsBetween(S, lo, hi) == UNION {[1..k -> S] : k \in lo..hi}

\* loadFromStorage / loadActiveIndex: the lineups of the previous session, the
\* active one being `stored`; nothing dragged, no handler run yet.
Loaded(stored) ==
    /\ activeLineupIndex = 0
    /\ lineups = [i \in 1..NUM_LINEUPS |-> IF i = 1 THEN stored ELSE createEmptyLineup]
    /\ activeId = NoId
    /\ activeDragPlayer = NoPlayer
    /\ originalCourtSlots = NullSlots
    /\ originalSlotIndex = NullIndex
    /\ over = NoId
    /\ last = NoOp
    /\ pre = stored
    /\ lastBefore = NoOp
    /\ before = stored
    /\ gesture = [slot |-> NoSlot, start |-> stored]
    /\ ops = 0
    /\ hovers = 0

\* Handler calls are counted; a gesture counts once, at its start.
Counted(limit, A) ==
    /\ ops < limit
    /\ A
    /\ ops' = ops + 1
    /\ hovers' = 0

Hover(limit, A) ==
    /\ hovers < limit
    /\ A
    /\ hovers' = hovers + 1
    /\ ops' = ops

Drop(A) ==
    /\ A
    /\ hovers' = 0
    /\ ops' = ops

\* ---------------------------------------------- the application (general)

\* The courts and benches of the stored lineups of the general runs.
OnePlayerCourt(n, k, g) == [i \in 1..n |-> IF i = k THEN g ELSE "none"]
FemalesFirst(n, f) == [i \in 1..n |-> IF i <= f THEN "female" ELSE "male"]
AllOf(g, k) == [i \in 1..k |-> g]
StoredBenchLengths == {<<0, 0>>, <<1, 1>>, <<MAX_SUBS_PER_SIDE, MAX_SUBS_PER_SIDE - 1>>}

\* Start-up with an empty storage, or with a lineup saved by a previous
\* session: a court with one player in its first or its fourth slot and nobody
\* on the benches, or a full court (two women, then men) with men on the left
\* bench and women on the right bench, or a court of four with one man in its
\* fourth slot and a man and a woman on the left bench.
GeneralStored ==
    {createEmptyLineup}
    \cup UNION {{StoredLineup(n, m, OnePlayerCourt(n, k, g), <<>>, <<>>) :
                    m \in {2, n}, k \in {1, MIN_PLAYER_COUNT}, g \in Gender} :
                 n \in MIN_PLAYER_COUNT..MAX_PLAYER_COUNT}
    \cup {StoredLineup(n, 2, FemalesFirst(n, 2), AllOf("male", b[1]), AllOf("female", b[2])) :
            n \in MIN_PLAYER_COUNT..MAX_PLAYER_COUNT, b \in StoredBenchLengths}
    \cup {StoredLineup(MIN_PLAYER_COUNT, 2,
                       OnePlayerCourt(MIN_PLAYER_COUNT, MIN_PLAYER_COUNT, "male"),
                       <<"male", "female">>, <<>>)}

Init == \E stored \in GeneralStored : Loaded(stored)

Rotate == \E d \in Direction : Counted(MaxOps, handleRotate(d))
PlayerCountChange == \E delta \in {-1, 1} : Counted(MaxOps, handlePlayerCountChange(delta))
MinGirlsChange == \E delta \in {-1, 1} : Counted(MaxOps, setMinGirls(delta))
SavePlayer ==
    \E es \in EditingSlots(currentLineup), g \in Gender :
        Counted(MaxOps, handleSavePlayer(es, g))
RemovePlayer ==
    \E es \in EditingSlots(currentLineup) : Counted(MaxOps, handleRemovePlayer(es))
ResetConfirm == Counted(MaxOps, handleResetConfirm)
SwitchLineup ==
    \E index \in 0..(NUM_LINEUPS - 1) : Counted(MaxOps, setActiveLineupIndex(index))
DragStart == \E id \in DraggableIds(currentLineup) : Counted(MaxOps, handleDragStart(id))
DragOver ==
    \E ov \in DroppableIds(currentLineup) \cup {NoId} : Hover(MaxHovers, handleDragOver(ov))
DragCancel == Drop(handleDragCancel)
DragEnd == Drop(handleDragEnd)

Next ==
    \/ Rotate
    \/ PlayerCountChange
    \/ MinGirlsChange
    \/ SavePlayer
    \/ RemovePlayer
    \/ ResetConfirm
    \/ SwitchLineup
    \/ DragStart
    \/ DragOver
    \/ DragCancel
    \/ DragEnd

Spec == Init /\ [][Next]_vars

\* ------------------------------------------------------ the rotation runs

\* Start-up with a stored lineup of any court size the controls allow and any
\* quota: a full court of any genders with up to MaxRotSubs players of any
\* gender on each bench, or a court with empty slots and empty benches.
InitRotation ==
    \E n \in MIN_PLAYER_COUNT..MAX_PLAYER_COUNT :
        \E m \in 0..n :
            \/ \E cg \in [1..n -> Gender] :
                   \E lg \in SeqsBetween(Gender, 0, MaxRotSubs) :
                       \E rg \in SeqsBetween(Gender, 0, MaxRotSubs) :
                           Loaded(StoredLineup(n, m, cg, lg, rg))
            \/ \E cg \in [1..n -> Gender \cup {"none"}] :
                   /\ {i \in 1..n : cg[i] = "none"} # {}
                   /\ Loaded(StoredLineup(n, m, cg, <<>>, <<>>))

RotateOnly == \E d \in Direction : Counted(MaxRotations, handleRotate(d))

SpecRotation == InitRotation /\ [][RotateOnly]_vars

\* ---------------------------------------------------------- the drag runs

\* Start-up with a stored lineup of any court size the controls allow and a
\* quota of 0 or 2: a full court (two women, then men) or the same court with
\* its second slot empty; benches empty, or a man on the left and a woman on
\* the right, or a man and a woman on the left and a man on the right.
WithEmptySlot(cg, k) == [cg EXCEPT ![k] = "none"]
DragStored ==
    UNION {{StoredLineup(n, m, cg, b[1], b[2]) :
               m \in {0, 2},
               cg \in {FemalesFirst(n, 2), WithEmptySlot(FemalesFirst(n, 2), 2)},
               b \in {<<<<>>, <<>>>>,
                      <<<<"male">>, <<"female">>>>,
                      <<<<"male", "female">>, <<"male">>>>}} :
           n \in MIN_PLAYER_COUNT..MAX_PLAYER_COUNT}

InitDrag == \E stored \in DragStored : Loaded(stored)

GestureStart ==
    \E id \in DraggableIds(currentLineup) : Counted(MaxGestures, handleDragStart(id))
GestureOver ==
    \E ov \in DroppableIds(currentLineup) \cup {NoId} :
        Hover(MaxGestureHovers, handleDragOver(ov))

NextDrag ==
    \/ GestureStart
    \/ GestureOver
    \/ DragCancel
    \/ DragEnd

SpecDrag == InitDrag /\ [][NextDrag]_vars

\* -------------------------------------------------------- the layout runs

\* Start-up with a stored lineup of any court size the README names (1-12;
\* loadFromStorage takes the stored playerCount as it is), no quota, a full
\* court of men and at most one man on each bench; then rotations.
InitLayout ==
    \E n \in 1..README_MAX_COURT_SIZE :
        \E ll \in 0..1, rl \in 0..1 :
            Loaded(StoredLineup(n, 0, AllOf("male", n), AllOf("male", ll), AllOf("male", rl)))

SpecLayout == InitLayout /\ [][RotateOnly]_vars

\* -------------------------------------------------------- the resize runs

\* Start-up with a stored lineup of any court size the controls allow, a quota
\* of 2 or N, any court (each slot a man, a woman or nobody), and benches of
\* men of length 0, 3 or 4 each.
ResizeBenchLengths == {0, MAX_SUBS_PER_SIDE - 1, MAX_SUBS_PER_SIDE}
InitResize ==
    \E n \in MIN_PLAYER_COUNT..MAX_PLAYER_COUNT :
        \E m \in {2, n} :
            \E cg \in [1..n -> Gender \cup {"none"}] :
                \E ll \in ResizeBenchLengths, rl \in ResizeBenchLengths :
                    Loaded(StoredLineup(n, m, cg, AllOf("male", ll), AllOf("male", rl)))

\* handlePlayerCountChange applied to every court size of the controls' range.
ResizeOnly ==
    \E count \in MIN_PLAYER_COUNT..MAX_PLAYER_COUNT :
        Counted(MaxResizes, onPlayerCountChange(count))

SpecResize == InitResize /\ [][ResizeOnly]_vars

\* ------------------------------------------------------- the request runs

\* The handlers behind the "Players on Court" buttons and the "+" of a bench,
\* called whether or not the button is enabled or shown, from the stored
\* lineups of the resize runs.
ResizeRequest ==
    \E delta \in {-1, 1} :
        Counted(MaxResizes,
                onPlayerCountChange(IF delta < 0 THEN Max(MIN_PLAYER_COUNT, playerCount - 1)
                                    ELSE Min(MAX_PLAYER_COUNT, playerCount + 1)))
AddSubRequest ==
    \E side \in Side, gender \in Gender : Counted(MaxResizes, onAddSub(side, gender))

NextRequests ==
    \/ ResizeRequest
    \/ AddSubRequest

SpecRequests == InitResize /\ [][NextRequests]_vars

\* -------------------------------------------------------- the start-up runs

\* What localStorage.getItem(STORAGE_KEY) can hand to the two loaders: nothing,
\* a text JSON.parse rejects, or a parsed object that has or lacks each of the
\* two fields of StoredData. A stored lineups array is empty, holds one lineup
\* in the old format (an empty bench slot before a player) or holds
\* NUM_LINEUPS lineups; a stored index lies in or just outside the tabs.
StoredTexts ==
    LET oldFormat == [createEmptyLineup EXCEPT
                         !.leftSubs = <<NoSub, MkSubSlot(StoredPlayer(7, "male"))>>]
        arrays == {<<>>, <<oldFormat>>, [i \in 1..NUM_LINEUPS |-> createEmptyLineup]}
        indices == {-1, 0, NUM_LINEUPS - 1, NUM_LINEUPS}
    IN {[kind |-> "missing"], [kind |-> "unparsable"]}
       \cup {[kind |-> "parsed", data |-> [none |-> TRUE]]}
       \cup {[kind |-> "parsed", data |-> [activeLineupIndex |-> x]] : x \in indices}
       \cup {[kind |-> "parsed", data |-> [lineups |-> a]] : a \in arrays}
       \cup {[kind |-> "parsed", data |-> [activeLineupIndex |-> x, lineups |-> a]] :
                x \in indices, a \in arrays}

migrateLineup(lineup) ==
    [lineup EXCEPT !.leftSubs = compactSubs(lineup.leftSubs),
                   !.rightSubs = compactSubs(lineup.rightSubs)]

\* JSON.parse throwing, and data.lineups.map throwing on an object without a
\* lineups array, both end in the catch and the six empty lineups.
loadFromStorage(stored) ==
    LET empty == [i \in 1..NUM_LINEUPS |-> createEmptyLineup]
    IN IF stored.kind # "parsed" THEN empty
       ELSE IF "lineups" \notin DOMAIN stored.data THEN empty
       ELSE LET migrated == [i \in 1..Len(stored.data.lineups) |->
                                migrateLineup(stored.data.lineups[i])]
            IN IF Len(migrated) < NUM_LINEUPS
               THEN migrated \o [i \in 1..(NUM_LINEUPS - Len(migrated)) |-> createEmptyLineup]
               ELSE migrated

\* data.activeLineupIndex ?? 0
loadActiveIndex(stored) ==
    IF stored.kind # "parsed" THEN 0
    ELSE IF "activeLineupIndex" \notin DOMAIN stored.data THEN 0
    ELSE stored.data.activeLineupIndex

\* A stored object conforms to StoredData when it has a lineups array and its
\* index, if any, names one of the NUM_LINEUPS tabs.
StoredClass(stored) ==
    IF stored.kind # "parsed" THEN stored.kind
    ELSE IF /\ "lineups" \in DOMAIN stored.data
            /\ \/ "activeLineupIndex" \notin DOMAIN stored.data
               \/ stored.data.activeLineupIndex \in 0..(NUM_LINEUPS - 1)
         THEN "wellformed"
         ELSE "malformed"

\* App reads lineups[activeLineupIndex] and takes it apart on every render;
\* with an index outside the array that read is undefined and the render throws.
AppRendered == activeLineupIndex \in 0..(Len(lineups) - 1)

\* The state the two useState initialisers build.
Started(stored) ==
    LET shown == IF loadActiveIndex(stored) \in 0..(Len(loadFromStorage(stored)) - 1)
                 THEN loadFromStorage(stored)[loadActiveIndex(stored) + 1]
                 ELSE createEmptyLineup
    IN /\ activeLineupIndex = loadActiveIndex(stored)
       /\ lineups = loadFromStorage(stored)
       /\ activeId = NoId
       /\ activeDragPlayer = NoPlayer
       /\ originalCourtSlots = NullSlots
       /\ originalSlotIndex = NullIndex
       /\ over = NoId
       /\ last = [NoOp EXCEPT !.a = StoredClass(stored)]
       /\ pre = shown
       /\ lastBefore = NoOp
       /\ before = shown
       /\ gesture = [slot |-> NoSlot, start |-> shown]
       /\ ops = 0
       /\ hovers = 0

InitStorage == \E stored \in StoredTexts : Started(stored)

\* Once rendered, players are added and the lineup tabs are used.
NextStorage ==
    \/ AppRendered /\ SavePlayer
    \/ AppRendered /\ SwitchLineup

SpecStorage == InitStorage /\ [][NextStorage]_vars

\* ------------------------------------------------------------ the claims

RotatedLast(direction) == last.op = "handleRotate" /\ last.a = direction
RotatedBefore(direction) == lastBefore.op = "handleRotate" /\ lastBefore.a = direction

AllMale(subs) == \A i \in 1..Len(subs) : ~IsFemale(subs[i].player)

\* Ids of the players a bench holds
SubIds(subs) == {subs[i].player.id : i \in 1..Len(subs)} \ {0}

\* The ids of the players of a lineup, place by place: court, left bench,
\* right bench.
PlacedIds(l) ==
    LET players == currentPlayers(l) \o PlayersOf(l.leftSubs) \o PlayersOf(l.rightSubs)
        held == SelectSeq(players, LAMBDA p : p # NoPlayer)
    IN [i \in 1..Len(held) |-> held[i].id]

\* C1: in every reachable state no player id appears in more than one place
\* among the court slots, the left bench and the right bench.
C1_UniqueIds ==
    LET ids == PlacedIds(currentLineup)
    IN \A i, j \in 1..Len(ids) : i # j => ids[i] # ids[j]

\* C2: a rotation of a full court whose protected (female) count is at least
\* the quota M leaves the protected count at least M, in both directions.
C2_RotationKeepsQuota ==
    (/\ last.op = "handleRotate"
     /\ isCourtFull(pre)
     /\ pre.playerCount \in MIN_PLAYER_COUNT..MAX_PLAYER_COUNT
     /\ girlsOnCourt(pre) >= pre.minGirls)
    => girlsOnCourt(currentLineup) >= minGirls

\* The case of C3, after the rotation.
C3_Premise ==
    /\ RotatedLast("forward")
    /\ pre.playerCount = 6
    /\ isCourtFull(pre)
    /\ girlsOnCourt(pre) = pre.minGirls
    /\ AllMale(pre.leftSubs) /\ AllMale(pre.rightSubs)
    /\ (leftExitIsFemale(pre, "forward") \/ rightExitIsFemale(pre, "forward"))

\* C3: N = 6, full court with exactly M protected occupants, benches without
\* protected players: when a protected occupant stands on the exit slot of a
\* side that has an entrant, rotate('forward') blocks an exit and leaves the
\* protected count at least M.
C3_BlockingKeepsQuota ==
    C3_Premise =>
        /\ girlsOnCourt(currentLineup) >= minGirls
        /\ (blockLeftExit(pre, "forward") \/ blockRightExit(pre, "forward"))

\* Both exits hold a protected occupant, M = 2, and two remain on court.
C3_Witness ==
    /\ C3_Premise
    /\ pre.minGirls = 2
    /\ leftExitIsFemale(pre, "forward") /\ rightExitIsFemale(pre, "forward")
    /\ girlsOnCourt(currentLineup) = 2

GapFree(subs) == \A i \in 1..Len(subs) : subs[i].player # NoPlayer

\* C4: in every reachable state every entry of the left bench and of the
\* right bench holds a player.
C4_BenchesGapFree == GapFree(leftSubs) /\ GapFree(rightSubs)

\* C5: in every reachable state each bench of every lineup holds at most
\* MAX_SUBS_PER_SIDE (4) entries.
C5_BenchCapacity ==
    \A l \in Range(lineups) :
        /\ Len(l.leftSubs) <= MAX_SUBS_PER_SIDE
        /\ Len(l.rightSubs) <= MAX_SUBS_PER_SIDE

\* A shrink that finds the left bench full and fills the right bench.
C5_Witness ==
    /\ last.op = "handlePlayerCountChange" /\ last.i < pre.playerCount
    /\ Len(pre.leftSubs) = MAX_SUBS_PER_SIDE
    /\ Len(pre.rightSubs) = MAX_SUBS_PER_SIDE - 1
    /\ Len(leftSubs) = MAX_SUBS_PER_SIDE
    /\ Len(rightSubs) = MAX_SUBS_PER_SIDE

\* C6: in every reachable state 0 <= M <= N; the "Min Females" buttons move M
\* within 0..N, and a change of the court size to newN leaves M equal to
\* min(old M, newN).
C6_QuotaWithinCourtSize ==
    /\ \A l \in Range(lineups) : 0 <= l.minGirls /\ l.minGirls <= l.playerCount
    /\ last.op = "setMinGirls" =>
          /\ minGirls = last.i
          /\ minGirls \in 0..pre.playerCount
          /\ playerCount = pre.playerCount
    /\ last.op = "handlePlayerCountChange" =>
          /\ playerCount = last.i
          /\ minGirls = Min(pre.minGirls, last.i)

\* A shrink that lowers the quota to the new court size.
C6_Witness ==
    /\ last.op = "handlePlayerCountChange"
    /\ pre.minGirls > playerCount
    /\ minGirls = playerCount

C8_Premise ==
    /\ RotatedBefore("forward") /\ RotatedLast("backward")
    /\ isCourtFull(before)
    /\ before.playerCount \in MIN_PLAYER_COUNT..MAX_PLAYER_COUNT
    /\ Len(PlayersOf(before.leftSubs)) >= 1
    /\ Len(PlayersOf(before.rightSubs)) >= 1
    /\ totalGirlsAfter(before, "forward") >= before.minGirls
    /\ totalGirlsAfter(pre, "backward") >= pre.minGirls

\* C8: from a full court with a player on each bench, rotate('forward') then
\* rotate('backward'), neither under quota pressure, restores the occupant of
\* every court slot and the order of the players of both benches.
C8_RoundTrip ==
    C8_Premise =>
        /\ currentPlayers(currentLineup) = currentPlayers(before)
        /\ PlayersOf(leftSubs) = PlayersOf(before.leftSubs)
        /\ PlayersOf(rightSubs) = PlayersOf(before.rightSubs)

\* A round trip with two players on each bench that changed court and bench
\* on the way.
C8_Witness ==
    /\ C8_Premise
    /\ Len(before.leftSubs) = 2 /\ Len(before.rightSubs) = 2
    /\ currentPlayers(pre) # currentPlayers(before)
    /\ pre.leftSubs # before.leftSubs
    /\ currentPlayers(currentLineup) = currentPlayers(before)

\* The case of C9, after the rotation.
C9_Premise ==
    /\ RotatedLast("forward")
    /\ pre.leftSubs = <<>> /\ pre.rightSubs = <<>>

ScenarioA_Map == (0 :> 1) @@ (1 :> 2) @@ (2 :> 5) @@ (5 :> 4) @@ (4 :> 3) @@ (3 :> 0)

\* The perimeter of the grid, clockwise from the front left slot: 2 x 2 for
\* four slots, 2 x 3 (with the back right slot missing for five) otherwise.
PerimeterCycle(n) ==
    IF n = 4 THEN <<0, 1, 3, 2>>
    ELSE IF n = 5 THEN <<0, 1, 2, 4, 3>>
    ELSE <<0, 1, 2, 5, 4, 3>>
PerimeterSuccessor(n) ==
    LET cycle == PerimeterCycle(n)
    IN [s \in Range(cycle) |->
           cycle[((CHOOSE k \in 1..Len(cycle) : cycle[k] = s) % Len(cycle)) + 1]]

MovedAlong(map) ==
    /\ DOMAIN map = 0..(pre.playerCount - 1)
    /\ \A s \in 0..(pre.playerCount - 1) :
          At(courtSlots, map[s]).player = At(pre.courtSlots, s).player

\* C9: with both benches empty, rotate('forward') moves the content of every
\* court slot s, a player or nothing, to the successor of s on the rotation
\* path and changes nothing else; for N = 6 the successors are 0->1, 1->2,
\* 2->5, 5->4, 4->3, 3->0.
C9_EmptyBenchRotation ==
    C9_Premise =>
        /\ MovedAlong(generateClockwiseRotation(pre.playerCount))
        /\ MovedAlong(PerimeterSuccessor(pre.playerCount))
        /\ (pre.playerCount = 6 => MovedAlong(ScenarioA_Map))
        /\ Len(courtSlots) = Len(pre.courtSlots)
        /\ leftSubs = <<>> /\ rightSubs = <<>>
        /\ playerCount = pre.playerCount /\ minGirls = pre.minGirls

\* N = 6: the player of slot 2 has moved to the empty slot 5, and the empty
\* slot 5 has moved to slot 4.
C9_Witness ==
    /\ C9_Premise
    /\ pre.playerCount = 6
    /\ At(pre.courtSlots, 2).player # NoPlayer
    /\ At(pre.courtSlots, 5).player = NoPlayer
    /\ At(courtSlots, 5).player = At(pre.courtSlots, 2).player
    /\ At(courtSlots, 4).player = NoPlayer

\* Ids of the players on court
OnCourtIds(l) == {l.courtSlots[i].player.id : i \in 1..Len(l.courtSlots)} \ {0}

\* What a blocked left (right) exit means for the rotation that just ran.
BlockedLeftRouted(d) ==
    blockLeftExit(pre, d) =>
        /\ At(courtSlots, getSubPositions(pre.playerCount, d).LEFT_ENTRY).player
              = leftExitPlayer(pre, d)
        /\ SubIds(pre.leftSubs) \cap OnCourtIds(currentLineup) = {}
        /\ leftSubs = pre.leftSubs

BlockedRightRouted(d) ==
    blockRightExit(pre, d) =>
        /\ At(courtSlots, getSubPositions(pre.playerCount, d).RIGHT_ENTRY).player
              = rightExitPlayer(pre, d)
        /\ SubIds(pre.rightSubs) \cap OnCourtIds(currentLineup) = {}
        /\ rightSubs = pre.rightSubs

\* Scenario B: the lineup rotated forward was N = 6, M = 2, women at slots 3
\* and 2 only, one man on each bench.
ScenarioB ==
    /\ RotatedLast("forward")
    /\ pre.playerCount = 6 /\ pre.minGirls = 2
    /\ \A i \in 0..5 : IsFemale(At(pre.courtSlots, i).player) <=> i \in {3, 2}
    /\ \A i \in 0..5 : At(pre.courtSlots, i).player # NoPlayer
    /\ Len(pre.leftSubs) = 1 /\ IsMale(pre.leftSubs[1].player)
    /\ Len(pre.rightSubs) = 1 /\ IsMale(pre.rightSubs[1].player)

\* C10: when a rotation blocks a side's exit, the occupant of that exit slot
\* moves to the same side's entry slot, no player of that side's bench enters
\* the court and that bench is unchanged; with N = 6, M = 2, protected
\* occupants at slots 3 and 2 only and one non-protected player on each
\* bench, rotate('forward') blocks both exits, the occupants of 3 and 2 end
\* at 0 and 5 and both benches are unchanged.
C10_BlockedExitRouting ==
    /\ \A d \in Direction : RotatedLast(d) => BlockedLeftRouted(d) /\ BlockedRightRouted(d)
    /\ ScenarioB =>
          /\ blockLeftExit(pre, "forward") /\ blockRightExit(pre, "forward")
          /\ At(courtSlots, 0).player = At(pre.courtSlots, 3).player
          /\ At(courtSlots, 5).player = At(pre.courtSlots, 2).player
          /\ leftSubs = pre.leftSubs /\ rightSubs = pre.rightSubs

\* Scenario B after the rotation.
C10_Witness ==
    /\ ScenarioB
    /\ At(courtSlots, 0).player = At(pre.courtSlots, 3).player
    /\ At(courtSlots, 5).player = At(pre.courtSlots, 2).player

\* The rotation that just ran found an entrant on both benches and a projected
\* protected count below the quota.
PressureOnBothSides(d) ==
    /\ RotatedLast(d)
    /\ leftWillSub(pre, d) /\ rightWillSub(pre, d)
    /\ totalGirlsAfter(pre, d) < pre.minGirls

Count(b) == IF b THEN 1 ELSE 0

\* The protected count on court when the left exit alone is blocked: the left
\* exit's occupant stays, the left entrant stays out, the right side
\* substitutes. Likewise for the right exit alone.
GirlsAfterBlockingLeftAlone(l, d) ==
    girlsRemaining(l, d) + Count(leftExitIsFemale(l, d))
        + Count(IsFemale(rightSubEntering(l, d).player))
GirlsAfterBlockingRightAlone(l, d) ==
    girlsRemaining(l, d) + Count(rightExitIsFemale(l, d))
        + Count(IsFemale(leftSubEntering(l, d).player))

TieBreak(l, d) ==
    IF leftExitIsFemale(l, d) /\ GirlsAfterBlockingLeftAlone(l, d) >= l.minGirls
    THEN [left |-> TRUE, right |-> FALSE]
    ELSE IF rightExitIsFemale(l, d) /\ GirlsAfterBlockingRightAlone(l, d) >= l.minGirls
         THEN [left |-> FALSE, right |-> TRUE]
         ELSE [left |-> leftExitIsFemale(l, d), right |-> rightExitIsFemale(l, d)]

\* C11: under quota pressure with an entrant on both sides, the left exit alone
\* is blocked when its occupant is protected and the protected count that
\* results from blocking it alone is at least M; otherwise the right exit
\* alone under the same condition; otherwise every exit whose occupant is
\* protected.
C11_TieBreak ==
    \A d \in Direction :
        PressureOnBothSides(d) => BlockedExits(pre, d) = TieBreak(pre, d)

\* Ids of the protected players on court
GirlsOnCourtIds(l) ==
    {l.courtSlots[i].player.id :
        i \in {j \in 1..Len(l.courtSlots) : IsFemale(l.courtSlots[j].player)}}

\* The rotation that just ran was under quota pressure, and the quota is out
\* of reach even when nobody leaves the court (both exits blocked).
QuotaOutOfReach(d) ==
    /\ RotatedLast(d)
    /\ totalGirlsAfter(pre, d) < pre.minGirls
    /\ girlsOnCourt(pre) < pre.minGirls

\* C12: when the quota cannot be reached even with both exits blocked, the
\* rotation blocks every exit whose occupant is protected and whose side has
\* an entrant, so that no protected occupant leaves the court, and commits.
C12_BestEffortBlocking ==
    \A d \in Direction :
        QuotaOutOfReach(d) =>
            /\ blockLeftExit(pre, d) = leftExitIsFemale(pre, d)
            /\ blockRightExit(pre, d) = rightExitIsFemale(pre, d)
            /\ GirlsOnCourtIds(pre) \subseteq GirlsOnCourtIds(currentLineup)
            /\ currentLineup = Rotated(pre, d)

\* ---- drag gestures: the pairing of a court slot with a bench slot

DroppedOn == last.s
PickedUp == gesture.slot
DropEnded == last.op = "handleDragEnd"

\* The drop paired a court slot with a bench slot the bench showed as occupied
\* when the gesture began (the bench shows its filled entries, numbered from 0).
CourtBenchDrop ==
    /\ DropEnded
    /\ {PickedUp.type, DroppedOn.type} = {"court", "sub"}
    /\ LET sub == IF PickedUp.type = "sub" THEN PickedUp ELSE DroppedOn
       IN sub.index < Len(compactSubs(SubsOf(gesture.start, sub.side)))

PairedCourtSlot == IF PickedUp.type = "court" THEN PickedUp ELSE DroppedOn
PairedBenchSlot == IF PickedUp.type = "sub" THEN PickedUp ELSE DroppedOn
PairedCourtPlayer == PlayerAt(currentPlayers(gesture.start), PairedCourtSlot.index)
PairedBenchPlayer ==
    compactSubs(SubsOf(gesture.start, PairedBenchSlot.side))[PairedBenchSlot.index + 1].player

\* Position, in the stored bench, of the entry that holds player p
BenchPositionOf(subs, p) == CHOOSE i \in 1..Len(subs) : subs[i].player = p

SwapRejected ==
    /\ IsFemale(PairedCourtPlayer)
    /\ ~IsFemale(PairedBenchPlayer)
    /\ girlsOnCourt(gesture.start) - 1 < gesture.start.minGirls

\* C13: a drop that pairs a court slot with an occupied bench slot changes
\* nothing when the court occupant is protected, the bench occupant is not
\* and one protected player fewer on court is below M; in every other case
\* the court slot holds the bench player and the bench slot holds the court
\* occupant afterwards.
C13_CourtBenchSwapRule ==
    CourtBenchDrop =>
        IF SwapRejected
        THEN currentLineup = gesture.start
        ELSE /\ PlayerAt(currentPlayers(currentLineup), PairedCourtSlot.index)
                    = PairedBenchPlayer
             /\ SubsOf(currentLineup, PairedBenchSlot.side)[
                    BenchPositionOf(SubsOf(gesture.start, PairedBenchSlot.side),
                                    PairedBenchPlayer)].player = PairedCourtPlayer

\* ---- drag gestures: court to court

\* The lineup l with the contents of court slots i and j exchanged
Exchanged(l, i, j) ==
    SetCourtPlayer(SetCourtPlayer(l, i, PlayerAt(currentPlayers(l), j)),
                   j, PlayerAt(currentPlayers(l), i))

CourtToCourtDrop ==
    /\ DropEnded
    /\ PickedUp.type = "court" /\ DroppedOn.type = "court"
    /\ DroppedOn.index # PickedUp.index

\* C14: dropping the occupant of court slot i on court slot j # i exchanges
\* the contents of slots i and j and leaves every other court slot and both
\* benches as they were when the gesture began.
C14_CourtSwapIsExchange ==
    CourtToCourtDrop =>
        currentLineup = Exchanged(gesture.start, PickedUp.index, DroppedOn.index)

\* ---- drag gestures: rejected drops

\* The drop put a court occupant on a bench entry that holds nobody, or paired
\* a court slot with a bench slot against the quota.
RejectedDrop ==
    \/ /\ DropEnded
       /\ PickedUp.type = "court" /\ DroppedOn.type = "sub"
       /\ SubPlayerAt(SubsOf(gesture.start, DroppedOn.side), DroppedOn.index) = NoPlayer
    \/ CourtBenchDrop /\ SwapRejected

CourtGestureAbandoned ==
    /\ PickedUp.type = "court"
    /\ \/ last.op = "handleDragCancel"
       \/ DropEnded /\ DroppedOn = NoSlot
       \/ DropEnded /\ DroppedOn = PickedUp

\* C16: a gesture that starts on a court slot and ends by cancel, by a drop
\* outside every target or by a drop on its starting slot leaves the court
\* equal to the snapshot taken at its start; the benches are not modified
\* while a gesture is in progress; no snapshot remains once the gesture ended.
C16_SnapshotRestore ==
    /\ CourtGestureAbandoned => courtSlots = gesture.start.courtSlots
    /\ ~Idle => /\ leftSubs = gesture.start.leftSubs
                /\ rightSubs = gesture.start.rightSubs
                /\ PickedUp.type = "court" => originalCourtSlots = gesture.start.courtSlots
    /\ Idle => originalCourtSlots = NullSlots /\ originalSlotIndex = NullIndex

\* A court gesture cancelled while the court showed a preview
C16_Witness ==
    /\ last.op = "handleDragCancel"
    /\ PickedUp.type = "court"
    /\ pre.courtSlots # gesture.start.courtSlots
    /\ courtSlots = gesture.start.courtSlots
    /\ originalCourtSlots = NullSlots

\* C17: a drop on the slot the player was picked up from (court or bench)
\* leaves the court, both benches, N and M unchanged.
C17_DropOnOwnSlotIsNoOp ==
    (DropEnded /\ DroppedOn = PickedUp) => currentLineup = gesture.start

\* A drop on the starting court slot after the pointer had moved the player
\* to another court slot, and a drop of a bench player on its own bench slot
C17_Witness ==
    /\ DropEnded /\ DroppedOn = PickedUp
    /\ \/ PickedUp.type = "court" /\ before.courtSlots # gesture.start.courtSlots
       \/ PickedUp.type = "sub"
    /\ currentLineup = gesture.start

\* ---- shrinking the court

ShrunkLast == last.op = "handlePlayerCountChange" /\ last.i < pre.playerCount

\* Court indices (0-based) occupied before the shrink, and those among them
\* whose occupant is no longer on court after it.
OccupiedBefore == Range(OccupiedIndices(pre))
RemovedIndices ==
    {i \in OccupiedBefore : At(pre.courtSlots, i).player.id \notin OnCourtIds(currentLineup)}
MenBefore == {i \in OccupiedBefore : IsMale(At(pre.courtSlots, i).player)}
WomenBefore == {i \in OccupiedBefore : IsFemale(At(pre.courtSlots, i).player)}

HighestFirst(among) ==
    \A i \in among \cap RemovedIndices : \A j \in among : j > i => j \in RemovedIndices

\* C18: a shrink removes a protected occupant only if it removes every
\* non-protected occupant; among the non-protected occupants those at the
\* highest court indices go first, and likewise among the protected ones;
\* a court of six with two non-protected and four protected occupants shrunk
\* to four loses exactly the two non-protected occupants.
C18_ShrinkSelection ==
    ShrunkLast =>
        /\ (WomenBefore \cap RemovedIndices # {}) => MenBefore \subseteq RemovedIndices
        /\ HighestFirst(MenBefore)
        /\ HighestFirst(WomenBefore)
        /\ ( /\ pre.playerCount = 6 /\ last.i = 4
             /\ Cardinality(MenBefore) = 2 /\ Cardinality(WomenBefore) = 4 )
           => RemovedIndices = MenBefore

\* A shrink by two that removed the only man and, of three women, the one at
\* the highest index, keeping a woman at a higher index than the man
C18_Witness ==
    /\ ShrunkLast
    /\ pre.playerCount - last.i = 2
    /\ Cardinality(MenBefore) = 1 /\ Cardinality(WomenBefore) = 3
    /\ Cardinality(RemovedIndices) = 2
    /\ \E i \in WomenBefore \ RemovedIndices : \E j \in MenBefore : i > j

\* The players that stayed on court, in their court order before the shrink
Survivors ==
    LET kept == SelectSeq(OccupiedIndices(pre), LAMBDA i : i \notin RemovedIndices)
    IN [k \in 1..Len(kept) |-> At(pre.courtSlots, kept[k]).player]

\* C19: after a shrink the k survivors hold court slots 0..k-1 in their
\* original relative order, k is at most the new court size, and every other
\* slot of the new court is empty.
C19_ShrinkCompaction ==
    ShrunkLast =>
        /\ Len(Survivors) <= last.i
        /\ Len(courtSlots) = last.i
        /\ \A k \in 1..Len(courtSlots) :
               courtSlots[k].player = IF k <= Len(Survivors) THEN Survivors[k] ELSE NoPlayer

\* A shrink after which two survivors stand on lower slots than before, with
\* an empty slot behind them
C19_Witness ==
    /\ ShrunkLast
    /\ Len(Survivors) >= 2
    /\ Len(Survivors) < last.i
    /\ \A k \in 1..Len(Survivors) :
           findIndex(pre.courtSlots, Survivors[k].id) > k - 1

\* The players removed from the court, in ascending court index
RemovedPlayers ==
    LET gone == SelectSeq(OccupiedIndices(pre), LAMBDA i : i \in RemovedIndices)
    IN [k \in 1..Len(gone) |-> At(pre.courtSlots, gone[k]).player]

LeftRoom == MAX_SUBS_PER_SIDE - Len(pre.leftSubs)
RightRoom == MAX_SUBS_PER_SIDE - Len(pre.rightSubs)
JoinedLeft == SubSeq(RemovedPlayers, 1, Min(Len(RemovedPlayers), LeftRoom))
JoinedRight ==
    SubSeq(RemovedPlayers, Len(JoinedLeft) + 1,
           Min(Len(RemovedPlayers), Len(JoinedLeft) + RightRoom))

\* C20: the occupants a shrink removes are appended in ascending court index
\* to the tail of the left bench while it has room, the next ones to the tail
\* of the right bench while it has room; the others are nowhere afterwards,
\* and the new court size is in force.
C20_ShrinkDestination ==
    ShrunkLast =>
        /\ PlayersOf(leftSubs) = PlayersOf(pre.leftSubs) \o JoinedLeft
        /\ PlayersOf(rightSubs) = PlayersOf(pre.rightSubs) \o JoinedRight
        /\ playerCount = last.i

\* A shrink by two with room for one player on the left bench and none on the
\* right bench: the first removed occupant joined the left bench, the second
\* is nowhere afterwards
C20_Witness ==
    /\ ShrunkLast
    /\ Len(RemovedPlayers) = 2
    /\ LeftRoom = 1 /\ RightRoom = 0
    /\ leftSubs[MAX_SUBS_PER_SIDE].player = RemovedPlayers[1]
    /\ RemovedPlayers[2].id \notin
           (OnCourtIds(currentLineup) \cup SubIds(leftSubs) \cup SubIds(rightSubs))

\* ---- growing the court

GrewLast == last.op = "handlePlayerCountChange" /\ last.i > pre.playerCount

\* The bench players before the growth: left bench in order, then right bench
BenchQueue == PlayersOf(pre.leftSubs) \o PlayersOf(pre.rightSubs)
NewSlots == last.i - pre.playerCount
TakenFromLeft == Min(Len(PlayersOf(pre.leftSubs)), NewSlots)
TakenFromRight == Min(Len(PlayersOf(pre.rightSubs)), NewSlots - TakenFromLeft)

\* C21: a growth leaves court slots 0..oldN-1 as they were and fills new slot
\* oldN+i with the i-th player of the left bench followed by the right bench;
\* exactly the players moved leave the heads of their benches, the other
\* bench players keep their order, and a new slot for which no bench player
\* is left is empty.
C21_Grow ==
    GrewLast =>
        /\ Len(courtSlots) = last.i
        /\ \A k \in 1..pre.playerCount : courtSlots[k] = pre.courtSlots[k]
        /\ \A i \in 0..(NewSlots - 1) :
               At(courtSlots, pre.playerCount + i) =
                   MkCourtSlot(PlayerAt(BenchQueue, i), pre.playerCount + i)
        /\ PlayersOf(leftSubs) = JsSliceFrom(PlayersOf(pre.leftSubs), TakenFromLeft)
        /\ PlayersOf(rightSubs) = JsSliceFrom(PlayersOf(pre.rightSubs), TakenFromRight)

\* ---- rotation: the entrants

FirstOf(players) == players[1]
LastOf(players) == players[Len(players)]

\* The players found at the two entry slots after the rotation that just ran
AtLeftEntry(d) == At(courtSlots, getSubPositions(pre.playerCount, d).LEFT_ENTRY).player
AtRightEntry(d) == At(courtSlots, getSubPositions(pre.playerCount, d).RIGHT_ENTRY).player

\* A side with an empty bench substituted nobody: its bench is still empty and
\* the occupant of its exit slot is still on court.
NobodySubstituted(d) ==
    /\ PlayersOf(pre.leftSubs) = <<>> =>
           /\ leftSubs = pre.leftSubs
           /\ leftExitPlayer(pre, d).id \in OnCourtIds(currentLineup) \cup {0}
    /\ PlayersOf(pre.rightSubs) = <<>> =>
           /\ rightSubs = pre.rightSubs
           /\ rightExitPlayer(pre, d).id \in OnCourtIds(currentLineup) \cup {0}

\* C22 as stated: on both sides alike a forward rotation brings in the first
\* entry of the bench and a backward rotation the last entry; a side with an
\* empty bench substitutes nobody.
C22_EntrantIsHeadForward ==
    \A d \in Direction :
        RotatedLast(d) =>
            /\ leftSubbing(pre, d) =>
                   AtLeftEntry(d) = IF d = "forward" THEN FirstOf(PlayersOf(pre.leftSubs))
                                    ELSE LastOf(PlayersOf(pre.leftSubs))
            /\ rightSubbing(pre, d) =>
                   AtRightEntry(d) = IF d = "forward" THEN FirstOf(PlayersOf(pre.rightSubs))
                                     ELSE LastOf(PlayersOf(pre.rightSubs))
            /\ NobodySubstituted(d)

\* C22: a forward rotation brings in the first entry of the left bench and
\* the last entry of the right bench, a backward rotation the last entry of
\* the left bench and the first entry of the right bench; a side with an
\* empty bench substitutes nobody.
C22_EntrantSelection ==
    \A d \in Direction :
        RotatedLast(d) =>
            /\ leftSubbing(pre, d) =>
                   AtLeftEntry(d) = IF d = "forward" THEN FirstOf(PlayersOf(pre.leftSubs))
                                    ELSE LastOf(PlayersOf(pre.leftSubs))
            /\ rightSubbing(pre, d) =>
                   AtRightEntry(d) = IF d = "forward" THEN LastOf(PlayersOf(pre.rightSubs))
                                     ELSE FirstOf(PlayersOf(pre.rightSubs))
            /\ NobodySubstituted(d)

\* A forward rotation that substituted on both sides from benches of two, and
\* brought in the first entry of the left bench and the last of the right
C22_Witness ==
    /\ RotatedLast("forward")
    /\ leftSubbing(pre, "forward") /\ rightSubbing(pre, "forward")
    /\ Len(pre.leftSubs) = 2 /\ Len(pre.rightSubs) = 2
    /\ AtLeftEntry("forward") = pre.leftSubs[1].player
    /\ AtRightEntry("forward") = pre.rightSubs[2].player

\* ---- rotation: cycling through the benches

\* The lineup after n more rotations in direction d
RECURSIVE RotatedTimes(_, _, _)
RotatedTimes(l, d, n) == IF n = 0 THEN l ELSE RotatedTimes(Rotated(l, d), d, n - 1)

\* None of the next n rotations in direction d blocks an exit.
Unblocked(l, d, n) ==
    \A j \in 0..(n - 1) :
        /\ ~blockLeftExit(RotatedTimes(l, d, j), d)
        /\ ~blockRightExit(RotatedTimes(l, d, j), d)

\* Player x, now on a bench of k players, is back on court after exactly k
\* more rotations in direction d.
BackAfter(x, k, d) ==
    /\ \A j \in 0..(k - 1) : x.id \notin OnCourtIds(RotatedTimes(currentLineup, d, j))
    /\ x.id \in OnCourtIds(RotatedTimes(currentLineup, d, k))

LeftSubstituted(d) == leftSubbing(pre, d) /\ leftExitPlayer(pre, d) # NoPlayer
RightSubstituted(d) == rightSubbing(pre, d) /\ rightExitPlayer(pre, d) # NoPlayer

\* The bench b after its first (last) player left and x joined the other end
ThroughFromFirst(b, x) == JsSliceFrom(PlayersOf(b), 1) \o <<x>>
ThroughFromLast(b, x) == <<x>> \o JsSlice(PlayersOf(b), 0, -1)

\* C23: a substitution takes the entrant from one end of the side's bench and
\* puts the player leaving the court at the opposite end; when the following
\* rotations go the same way and block nothing, a player who left the court
\* for a bench of k players is back on court at exactly the k-th of them, so
\* players come back in the order in which they left.
C23_BenchCycling ==
    \A d \in Direction :
        RotatedLast(d) =>
            /\ LeftSubstituted(d) =>
                   /\ PlayersOf(leftSubs) =
                          IF d = "forward"
                          THEN ThroughFromFirst(pre.leftSubs, leftExitPlayer(pre, d))
                          ELSE ThroughFromLast(pre.leftSubs, leftExitPlayer(pre, d))
                   /\ Unblocked(currentLineup, d, Len(leftSubs)) =>
                          BackAfter(leftExitPlayer(pre, d), Len(leftSubs), d)
            /\ RightSubstituted(d) =>
                   /\ PlayersOf(rightSubs) =
                          IF d = "forward"
                          THEN ThroughFromLast(pre.rightSubs, rightExitPlayer(pre, d))
                          ELSE ThroughFromFirst(pre.rightSubs, rightExitPlayer(pre, d))
                   /\ Unblocked(currentLineup, d, Len(rightSubs)) =>
                          BackAfter(rightExitPlayer(pre, d), Len(rightSubs), d)

\* Two forward rotations that substituted on the right from a bench of two
\* and blocked nothing: the two players who left the court are the right
\* bench now, the first to leave being the next to enter
C23_Witness ==
    /\ RotatedLast("forward") /\ RotatedBefore("forward")
    /\ RightSubstituted("forward")
    /\ Len(before.rightSubs) = 2
    /\ PlayersOf(rightSubs) = <<rightExitPlayer(pre, "forward"),
                                rightExitPlayer(before, "forward")>>
    /\ Unblocked(currentLineup, "forward", 2)
    /\ rightSubEntering(currentLineup, "forward").player = rightExitPlayer(before, "forward")

\* ---- layout, rotation path, entry and exit slots

\* The orbit of slot s under map f: the slots reached from s in at most n steps
RECURSIVE Orbit(_, _, _)
Orbit(f, s, n) == IF n = 0 THEN {s} ELSE {s} \cup Orbit(f, f[s], n - 1)

\* C24: for every N in 1..6 the forward successor map is one cycle through
\* the N court slots (a self-loop for N = 1) and the backward map is its
\* inverse: backward[forward[s]] = s and forward[backward[s]] = s.
C24_RotationPath ==
    playerCount \in 1..6 =>
        LET forward == generateClockwiseRotation(playerCount)
            backward == generateCounterClockwiseRotation(playerCount)
            slots == 0..(playerCount - 1)
        IN /\ DOMAIN forward = slots /\ DOMAIN backward = slots
           /\ \A s \in slots : forward[s] \in slots /\ backward[s] \in slots
           /\ \A s \in slots : Orbit(forward, s, playerCount - 1) = slots
           /\ playerCount = 1 => forward[0] = 0
           /\ \A s \in slots : backward[forward[s]] = s /\ forward[backward[s]] = s

\* A court of three without bench players, rotated forward and then backward:
\* every player moved and is back on the slot it started from
C24_Witness ==
    /\ RotatedLast("backward") /\ RotatedBefore("forward")
    /\ playerCount = 3
    /\ leftSubs = <<>> /\ rightSubs = <<>>
    /\ \A i \in 0..2 : At(pre.courtSlots, i).player # At(before.courtSlots, i).player
    /\ currentPlayers(currentLineup) = currentPlayers(before)

\* The grid shape of a court of n slots
GridShape(n) ==
    IF n <= 3 THEN [rows |-> 1, cols |-> n]
    ELSE IF n = 4 THEN [rows |-> 2, cols |-> 2]
    ELSE IF n <= 6 THEN [rows |-> 2, cols |-> 3]
    ELSE IF n <= 9 THEN [rows |-> 3, cols |-> 3]
    ELSE [rows |-> IF n % 4 = 0 THEN n \div 4 ELSE n \div 4 + 1, cols |-> 4]

FrontA(n) == 0
BackA(n) == Min((GridShape(n).rows - 1) * GridShape(n).cols, n - 1)
FrontB(n) == GridShape(n).cols - 1
BackB(n) == Min((GridShape(n).rows - 1) * GridShape(n).cols + GridShape(n).cols - 1, n - 1)

\* C25: for every N in 1..6, with Side A front = 0 and back = (rows-1)*cols
\* clipped to N-1, Side B front = cols-1 and back = min((rows-1)*cols +
\* cols-1, N-1), a forward rotation enters at A front and B back and exits at
\* A back and B front, and a backward rotation swaps entry and exit on each
\* side.
C25_EntryExitSlots ==
    playerCount \in 1..6 =>
        /\ getSubPositions(playerCount, "forward") =
               [LEFT_ENTRY |-> FrontA(playerCount), LEFT_EXIT |-> BackA(playerCount),
                RIGHT_ENTRY |-> BackB(playerCount), RIGHT_EXIT |-> FrontB(playerCount)]
        /\ getSubPositions(playerCount, "backward") =
               [LEFT_ENTRY |-> BackA(playerCount), LEFT_EXIT |-> FrontA(playerCount),
                RIGHT_ENTRY |-> FrontB(playerCount), RIGHT_EXIT |-> BackB(playerCount)]

\* A court of five rotated backward with a player on each bench: the left
\* bench player stands on slot 3 (A back), the right bench player on slot 2
\* (B front), and the players of slots 0 and 4 are on the benches
C25_Witness ==
    /\ RotatedLast("backward")
    /\ playerCount = 5
    /\ Len(pre.leftSubs) = 1 /\ Len(pre.rightSubs) = 1
    /\ At(courtSlots, 3).player = pre.leftSubs[1].player
    /\ At(courtSlots, 2).player = pre.rightSubs[1].player
    /\ leftSubs[1].player = At(pre.courtSlots, 0).player
    /\ rightSubs[1].player = At(pre.courtSlots, 4).player

\* C26: for every N in 1..12 the layout function of the rotation engine and
\* the one of the court renderer both return the shape N <= 3 -> (1, N);
\* N = 4 -> (2, 2); 5 <= N <= 6 -> (2, 3); 7 <= N <= 9 -> (3, 3); otherwise
\* (ceil(N/4), 4).
C26_GridLayout ==
    playerCount \in 1..12 =>
        /\ getGridLayout(playerCount) = GridShape(playerCount)
        /\ CourtGetGridLayout(playerCount) = GridShape(playerCount)

\* ---- requests that cannot be served

\* The request that just ran asked for a player more on a bench at capacity,
\* for a smaller court at the minimum size or a larger one at the maximum.
AddToFullBench ==
    /\ last.op = "handleAddSub"
    /\ Len(SubsOf(pre, last.a)) >= MAX_SUBS_PER_SIDE
ResizePastBound ==
    /\ last.op = "handlePlayerCountChange"
    /\ pre.playerCount \in {MIN_PLAYER_COUNT, MAX_PLAYER_COUNT}
    /\ last.i = pre.playerCount

\* C27: a request to add a player to a bench at capacity, and a request to
\* resize past a bound (decrement at the minimum N, increment at the maximum
\* N), leave the court, both benches, N and M unchanged.
C27_InvalidRequestsChangeNothing ==
    (AddToFullBench \/ ResizePastBound) => currentLineup = pre

\* A request to add to a full left bench next to a right bench with room,
\* on a full court
C27_Witness ==
    /\ AddToFullBench
    /\ last.a = "left"
    /\ Len(rightSubs) < MAX_SUBS_PER_SIDE
    /\ isCourtFull(currentLineup)
    /\ currentLineup = pre

\* C28: The App starts from whatever the storage holds: the active index
\* always names one of the loaded lineups, and when the stored state was
\* missing, unparsable or malformed (no lineups array, or an active index
\* outside the tabs) the App starts on six empty lineups.
C28_PersistenceTolerance ==
    /\ AppRendered
    /\ (last.op = "start" /\ last.a \in {"missing", "unparsable", "malformed"})
        => lineups = [i \in 1..NUM_LINEUPS |-> createEmptyLineup]

\* C29: In every lineup each bench holds at most the three players the README
\* allows a side, six over both sides.
C29_BenchHoldsAtMostThree ==
    \A k \in 1..Len(lineups) :
        /\ Len(compactSubs(lineups[k].leftSubs)) <= README_MAX_SUBS_PER_SIDE
        /\ Len(compactSubs(lineups[k].rightSubs)) <= README_MAX_SUBS_PER_SIDE
        /\ Len(compactSubs(lineups[k].leftSubs)) + Len(compactSubs(lineups[k].rightSubs))
               <= 2 * README_MAX_SUBS_PER_SIDE

RotatedFullCourt ==
    /\ last.op = "handleRotate"
    /\ isCourtFull(pre)
    /\ pre.playerCount \in MIN_PLAYER_COUNT..MAX_PLAYER_COUNT

\* C30: a rotation of a full court of 4 to 6 slots, whatever the benches
\* hold, keeps every player in exactly one place (court or a bench), brings
\* in nobody new, leaves the court full and each bench as long as it was, and
\* changes neither the court size nor the quota.
C30_RotationConservesPlayers ==
    RotatedFullCourt =>
        LET ids == PlacedIds(currentLineup)
        IN /\ {ids[i] : i \in 1..Len(ids)} = {PlacedIds(pre)[i] : i \in 1..Len(PlacedIds(pre))}
           /\ \A i, j \in 1..Len(ids) : i # j => ids[i] # ids[j]
           /\ isCourtFull(currentLineup)
           /\ Len(PlayersOf(leftSubs)) = Len(PlayersOf(pre.leftSubs))
           /\ Len(PlayersOf(rightSubs)) = Len(PlayersOf(pre.rightSubs))
           /\ playerCount = pre.playerCount
           /\ minGirls = pre.minGirls

\* A rotation that exchanged a player on both sides at once.
C30_Witness ==
    /\ RotatedFullCourt
    /\ SubIds(leftSubs) # SubIds(pre.leftSubs)
    /\ SubIds(rightSubs) # SubIds(pre.rightSubs)
    /\ Len(pre.leftSubs) = 2

\* ---- rotation: blocking only under quota pressure

\* What a side is seen to have done in the rotation that just ran: its entrant
\* stands on its entry slot and no other player of its bench came on court, and
\* the occupant of its exit slot, if any, has joined its bench.
LeftSideExchanged(d) ==
    /\ AtLeftEntry(d) = leftSubEntering(pre, d).player
    /\ SubIds(pre.leftSubs) \cap OnCourtIds(currentLineup) = {leftSubEntering(pre, d).player.id}
    /\ leftExitPlayer(pre, d).id \in SubIds(leftSubs) \cup {0}
RightSideExchanged(d) ==
    /\ AtRightEntry(d) = rightSubEntering(pre, d).player
    /\ SubIds(pre.rightSubs) \cap OnCourtIds(currentLineup) = {rightSubEntering(pre, d).player.id}
    /\ rightExitPlayer(pre, d).id \in SubIds(rightSubs) \cup {0}

\* A side is seen to have been blocked: it had an entrant and its bench is
\* what it was.
LeftSideBlocked == PlayersOf(pre.leftSubs) # <<>> /\ PlayersOf(leftSubs) = PlayersOf(pre.leftSubs)
RightSideBlocked == PlayersOf(pre.rightSubs) # <<>> /\ PlayersOf(rightSubs) = PlayersOf(pre.rightSubs)

\* C31: when the women staying on court (all but the exit slots of the sides
\* with an entrant) plus the entering women are at least M, the rotation
\* exchanges one player on every side whose bench is not empty; and whenever
\* a side with an entrant keeps its bench, its exit slot held a woman.
C31_NoBlockingWithoutPressure ==
    \A d \in Direction :
        RotatedLast(d) =>
            /\ totalGirlsAfter(pre, d) >= pre.minGirls =>
                   /\ PlayersOf(pre.leftSubs) # <<>> => LeftSideExchanged(d)
                   /\ PlayersOf(pre.rightSubs) # <<>> => RightSideExchanged(d)
            /\ (LeftSideBlocked /\ ~LeftSideExchanged(d)) => IsFemale(leftExitPlayer(pre, d))
            /\ (RightSideBlocked /\ ~RightSideExchanged(d)) => IsFemale(rightExitPlayer(pre, d))

\* A rotation without pressure in which a woman left the court on each side.
C31_Witness ==
    /\ RotatedLast("forward")
    /\ totalGirlsAfter(pre, "forward") >= pre.minGirls
    /\ pre.minGirls >= 1
    /\ IsFemale(leftExitPlayer(pre, "forward")) /\ IsFemale(rightExitPlayer(pre, "forward"))
    /\ LeftSideExchanged("forward") /\ RightSideExchanged("forward")
    /\ leftExitPlayer(pre, "forward").id \in SubIds(leftSubs)
    /\ rightExitPlayer(pre, "forward").id \in SubIds(rightSubs)

\* ---- removing a player from the court

RemovedFromCourt == last.op = "handleRemovePlayer" /\ last.s.type = "court"

\* C32: removing the occupant of a court slot puts the first player of the
\* left bench on the slot and takes that player off the bench; with an empty
\* left bench the same with the right bench; with both benches empty the slot
\* becomes empty. The removed player is nowhere afterwards, and the other
\* court slots and the other bench players keep their content and order.
C32_RemoveFromCourt ==
    RemovedFromCourt =>
        LET left == PlayersOf(pre.leftSubs)
            right == PlayersOf(pre.rightSubs)
            removed == At(pre.courtSlots, last.i).player
            slot == At(courtSlots, last.i).player
        IN /\ IF left # <<>>
              THEN /\ slot = FirstOf(left)
                   /\ PlayersOf(leftSubs) = Tail(left)
                   /\ PlayersOf(rightSubs) = right
              ELSE IF right # <<>>
              THEN /\ slot = FirstOf(right)
                   /\ PlayersOf(leftSubs) = left
                   /\ PlayersOf(rightSubs) = Tail(right)
              ELSE /\ slot = NoPlayer
                   /\ PlayersOf(leftSubs) = left
                   /\ PlayersOf(rightSubs) = right
           /\ removed.id \notin OnCourtIds(currentLineup)
                                \cup SubIds(leftSubs) \cup SubIds(rightSubs)
           /\ \A k \in 0..(Len(courtSlots) - 1) :
                  k # last.i => At(courtSlots, k) = At(pre.courtSlots, k)
           /\ Len(courtSlots) = Len(pre.courtSlots)

\* ---- the six lineups

\* C33: a step that keeps the active lineup index changes no lineup but the
\* active one; a step that changes the index changes no lineup at all; and
\* after "Reset" the active lineup is the empty default (N=6, M=2, empty
\* court and benches).
C33_LineupIsolation ==
    [][ /\ activeLineupIndex' = activeLineupIndex =>
               \A k \in 1..Len(lineups) :
                   k # activeLineupIndex + 1 => lineups'[k] = lineups[k]
        /\ activeLineupIndex' # activeLineupIndex => lineups' = lineups
        /\ Len(lineups') = Len(lineups)
        /\ last'.op = "handleResetConfirm" =>
               /\ lineups'[activeLineupIndex + 1] = createEmptyLineup
               /\ activeLineupIndex' = activeLineupIndex ]_vars

\* A player was added to the second lineup while the first lineup holds
\* players.
C33_Witness ==
    /\ activeLineupIndex = 1
    /\ last.op = "handleSavePlayer"
    /\ currentLineup # pre
    /\ OnCourtIds(lineups[1]) # {}
    /\ \A k \in 3..Len(lineups) : lineups[k] = createEmptyLineup

\* ---- drops and the quota

\* C34: a gesture that began with at least M women on court ends, however
\* it was dropped (court on court, court on bench, bench on court, bench on
\* bench, bench on an empty court slot), with at least M women on court.
C34_DropsKeepQuota ==
    (DropEnded /\ girlsOnCourt(gesture.start) >= gesture.start.minGirls)
        => girlsOnCourt(currentLineup) >= minGirls

\* A committed exchange at the quota: a woman left the court for the bench
\* and the woman of the bench took her slot.
C34_Witness ==
    /\ DropEnded
    /\ minGirls >= 1
    /\ girlsOnCourt(gesture.start) = gesture.start.minGirls
    /\ CourtBenchDrop
    /\ IsFemale(PairedCourtPlayer) /\ IsFemale(PairedBenchPlayer)
    /\ PairedCourtPlayer.id \in SubIds(SubsOf(currentLineup, PairedBenchSlot.side))
    /\ PairedBenchPlayer.id \in OnCourtIds(currentLineup)

\* ---- the live preview

Occupants(l) == [i \in 1..Len(l.courtSlots) |-> l.courtSlots[i].player]
Without(seq, k) == SubSeq(seq, 1, k - 1) \o SubSeq(seq, k + 1, Len(seq))
CourtGestureRunning == ~Idle /\ PickedUp.type = "court"

\* C35: while a gesture that began on a court slot is running, the court is
\* the court of the gesture's start with the dragged occupant taken out and
\* put at the hovered court index (at its own index when the pointer is over
\* no court slot), the others keeping their order whatever was hovered before;
\* the benches, N and M are those of the gesture's start.
C35_PreviewIsReordering ==
    CourtGestureRunning =>
        LET began == Occupants(gesture.start)
            now == Occupants(currentLineup)
            at == IF over.kind = "court" THEN over.index ELSE PickedUp.index
        IN /\ Len(now) = Len(began)
           /\ now[at + 1] = began[PickedUp.index + 1]
           /\ Without(now, at + 1) = Without(began, PickedUp.index + 1)
           /\ \A i \in 1..Len(courtSlots) : courtSlots[i].slotIndex = i - 1
           /\ leftSubs = gesture.start.leftSubs
           /\ rightSubs = gesture.start.rightSubs
           /\ playerCount = gesture.start.playerCount
           /\ minGirls = gesture.start.minGirls

\* The second hover of a gesture carried the dragged occupant at least two
\* slots away from where it was picked up, past occupied slots.
C35_Witness ==
    /\ CourtGestureRunning
    /\ last.op = "handleDragOver" /\ lastBefore.op = "handleDragOver"
    /\ over.kind = "court"
    /\ over.index >= PickedUp.index + 2
    /\ isCourtFull(gesture.start)
    /\ pre.courtSlots # gesture.start.courtSlots
    /\ pre.courtSlots # courtSlots

\* ---- rotation on a single row

RotatedSingleRow ==
    /\ last.op = "handleRotate"
    /\ isCourtFull(pre)
    /\ pre.playerCount \in 1..3
    /\ PlayersOf(pre.leftSubs) \o PlayersOf(pre.rightSubs) # <<>>

\* C36: a rotation of a full court of 1 to 3 slots with a player on at least
\* one bench keeps every player in exactly one place (court or a bench),
\* loses and duplicates nobody, and leaves the court full.
C36_SingleRowConservesPlayers ==
    RotatedSingleRow =>
        LET ids == PlacedIds(currentLineup)
        IN /\ {ids[i] : i \in 1..Len(ids)} = {PlacedIds(pre)[i] : i \in 1..Len(PlacedIds(pre))}
           /\ \A i, j \in 1..Len(ids) : i # j => ids[i] # ids[j]
           /\ isCourtFull(currentLineup)

\* ---- benches and the full court

\* C37: in every lineup, a bench holds a player only while every court slot
\* is occupied.
C37_BenchOnlyWithFullCourt ==
    \A k \in 1..Len(lineups) :
        (PlayersOf(lineups[k].leftSubs) \o PlayersOf(lineups[k].rightSubs) # <<>>)
            => isCourtFull(lineups[k])

\* ---- the period of the rotation

RotatedWithEmptyBenches(d) ==
    /\ RotatedLast(d)
    /\ pre.leftSubs = <<>> /\ pre.rightSubs = <<>>
    /\ pre.playerCount \in 1..MAX_PLAYER_COUNT

Distinct(players) == \A i, j \in DOMAIN players : i # j => players[i] # players[j]

\* C38: with both benches empty, the rotation that just ran followed by
\* N - 1 more in the same direction (N in 1..6) gives every court slot the
\* content it had before the first; and when the N contents are pairwise
\* distinct, the court after fewer than N rotations differs from that court.
C38_RotationPeriod ==
    \A d \in Direction :
        RotatedWithEmptyBenches(d) =>
            /\ Occupants(RotatedTimes(currentLineup, d, pre.playerCount - 1)) = Occupants(pre)
            /\ Distinct(Occupants(pre)) =>
                   \A k \in 1..(pre.playerCount - 1) :
                       Occupants(RotatedTimes(currentLineup, d, k - 1)) # Occupants(pre)

\* The first of six backward rotations of a full court of six.
C38_Witness ==
    /\ RotatedWithEmptyBenches("backward")
    /\ pre.playerCount = 6
    /\ isCourtFull(pre)
    /\ Distinct(Occupants(pre))
    /\ Occupants(currentLineup) # Occupants(pre)
    /\ Occupants(RotatedTimes(currentLineup, "backward", 5)) = Occupants(pre)

\* ---- shrinking a court with empty slots

\* C39: a shrink from oldN to newN takes min(oldN - newN, k) occupants off
\* the court, k being the number of occupied slots, whether or not the court
\* has empty slots that could absorb the shrink; the only occupant of a court
\* of six shrunk to five leaves the court empty and joins a bench with room.
C39_ShrinkIgnoresEmptySlots ==
    ShrunkLast =>
        /\ Cardinality(RemovedIndices)
               = Min(pre.playerCount - last.i, Cardinality(OccupiedBefore))
        /\ Cardinality(OnCourtIds(currentLineup))
               = Cardinality(OccupiedBefore) - Cardinality(RemovedIndices)
        /\ ( /\ pre.playerCount = 6 /\ last.i = 5
             /\ Cardinality(OccupiedBefore) = 1 )
           => /\ OnCourtIds(currentLineup) = {}
              /\ (LeftRoom > 0 => JoinedLeft = RemovedPlayers)
              /\ (LeftRoom = 0 /\ RightRoom > 0 => JoinedRight = RemovedPlayers)

\* The only occupant of a court of six, shrunk to five, is on the left bench
\* and the court is empty.
C39_Witness ==
    /\ ShrunkLast
    /\ pre.playerCount = 6 /\ last.i = 5
    /\ Cardinality(OccupiedBefore) = 1
    /\ OnCourtIds(currentLineup) = {}
    /\ pre.leftSubs = <<>>
    /\ PlayersOf(leftSubs) = RemovedPlayers
    /\ Len(RemovedPlayers) = 1

====
